---- MODULE Spec2Model ----
(***************************************************************************)
(* A model of pynapse's client-side core: the multi-provider piece         *)
(* retriever (ChainRetriever / AsyncChainRetriever), dataset-metadata      *)
(* matching and the explicit-dataset resolver of StorageContext /          *)
(* AsyncStorageContext.                                                    *)
(***************************************************************************)
EXTENDS Integers, Sequences, FiniteSets, TLC

(* ------------------------------ bounds -------------------------------- *)

\* largest number of candidate providers _find_providers may return
MaxCand == 3

\* largest number of entries in a metadata map
MaxMeta == 2

\* provider ids known to the registry are 1..MaxProv
MaxProv == 2

(* ------------------------------ state --------------------------------- *)

VARIABLES
    \* --- retriever: the call's inputs and the collaborators' behaviour
    impl,           \* "sync" (ChainRetriever) or "async" (AsyncChainRetriever)
    parallel,       \* the parallel argument of fetch_piece
    fallback,       \* "none", or "set": a fallback retriever is configured
    args,           \* [piece_cid, client_address, provider_address]
    nFound,         \* how many providers _find_providers finds (0: it raises ValueError)
    resp,           \* resp[i]: how candidate i answers
    \* --- retriever: the state of one fetch_piece call
    pc,             \* position of fetch_piece
    providers,      \* the candidate list, 1..Len
    task,           \* task[i]: state of candidate i's _try_fetch_from_provider
    must_cancel,    \* async: cancellation requested for task i
    nprobe,         \* nprobe[i]: GET /pdp/piece requests sent to candidate i
    ndownload,      \* ndownload[i]: GET /pdp/piece/{cid} requests sent to candidate i
    completed,      \* finished tasks not yet seen by the as_completed loop, in order
    cur,            \* sequential mode: index of the candidate being tried
    picked,         \* the candidate whose result fetch_piece took (0: none)
    outcome,        \* what fetch_piece returns or raises
    fallbackCalls,  \* the argument tuples the fallback retriever was called with
    \* --- metadata_matches
    mm,             \* [M, R, result] of the last metadata_matches call, or NoCall
    \* --- the resolvers _resolve_by_data_set_id and _resolve_by_provider_id
    rq,             \* the resolution request and the chain state it runs against
    rres,           \* its result: NoCall, a selection, or an error
    \* --- StorageContext.create
    cs,             \* the state of the create calls, or NoCall
    \* --- the pure helpers and the PDP server's response handling
    pf              \* [fn, ...arguments..., result] of the last call, or NoCall

retrVars == <<impl, parallel, fallback, args, nFound, resp, pc, providers, task,
              must_cancel, nprobe, ndownload, completed, cur, picked, outcome,
              fallbackCalls>>
metaVars == <<mm>>
resVars  == <<rq, rres>>
vars     == <<impl, parallel, fallback, args, nFound, resp, pc, providers, task,
              must_cancel, nprobe, ndownload, completed, cur, picked, outcome,
              fallbackCalls, mm, rq, rres, cs, pf>>

NoCall == [kind |-> "nocall"]

(* ========================= the retriever ============================== *)

\* the piece identifier fetch_piece is called with
PieceCids == {"cidA"}
NoAddress == "None"
Cands == 1..MaxCand

\* how a candidate answers: its endpoint lookup fails (an exception, or no
\* serviceURL capability), its probe fails (an exception or a non-200), its
\* download fails (an exception or a non-200), or both requests return 200
Responses == {"endpointFail", "probeFail", "downloadFail", "ok"}

Running == {"endpoint", "probe", "download"}
Finished == {"none", "bytes", "raised"}

\* what a failing step of _try_fetch_from_provider makes of the task: the
\* except clause and the early returns turn every failure into None
on_failure_raises == "raised"
on_failure == "none"

\* whether fetch_piece races the candidates
use_parallel_always(im, par, n) == TRUE
use_parallel(im, par, n) ==
    IF im = "sync" THEN par /\ n > 1 ELSE par

\* the error raised when every candidate has been tried without a result
exhausted_error_anonymous(a) ==
    [kind |-> "error", cause |-> "exhausted", src |-> 0, piece |-> "none"]
exhausted_error(a) ==
    [kind |-> "error", cause |-> "exhausted", src |-> 0, piece |-> a.piece_cid]

\* the arguments fetch_piece hands to the fallback retriever
fallback_args_swapped(a) == <<a.piece_cid, a.provider_address, a.client_address>>
fallback_args(a) == <<a.piece_cid, a.client_address, a.provider_address>>

\* the error _find_providers raises (it does not name the piece)
find_error == [kind |-> "error", cause |-> "find", src |-> 0, piece |-> "none"]
NoOutcome == [kind |-> "none", cause |-> "none", src |-> 0, piece |-> "none"]
BytesOf(i) == [kind |-> "bytes", cause |-> "none", src |-> i, piece |-> "none"]

CandidateError(i) == [kind |-> "error", cause |-> "candidate", src |-> i, piece |-> "none"]
FallbackBytes == [kind |-> "fallbackBytes", cause |-> "none", src |-> 0, piece |-> "none"]
FallbackError == [kind |-> "error", cause |-> "fallback", src |-> 0, piece |-> "none"]

\* Future.cancel() on every future: only a future no worker has picked up yet
\* is cancelled, a running one is left alone
cancel_futures(t) ==
    [i \in DOMAIN t |-> IF t[i] = "pending" THEN "cancelled" ELSE t[i]]

\* Task.cancel() on every task: each task that is not done gets CancelledError
\* thrown into it at its next step
cancel_tasks_forgotten(t) == [i \in DOMAIN t |-> FALSE]
cancel_tasks(t) == [i \in DOMAIN t |-> t[i] \notin Finished \cup {"cancelled"}]

RetrTypeOK ==
    /\ impl \in {"sync", "async"}
    /\ parallel \in BOOLEAN
    /\ fallback \in {"none", "set"}
    /\ nFound \in 0..MaxCand
    /\ pc \in {"start", "race", "seq", "shutdown", "fallback", "done", "off"}
    /\ picked \in 0..MaxCand
    /\ cur \in 0..MaxCand
    /\ Len(fallbackCalls) <= 2

RetrInit ==
    /\ impl \in {"sync", "async"}
    /\ parallel \in BOOLEAN
    /\ fallback \in {"none", "set"}
    /\ args \in [piece_cid : PieceCids, client_address : {"0xClient"},
                 provider_address : {NoAddress, "0xProv"}]
    \* an explicit provider address yields that provider alone
    /\ nFound \in 0..(IF args.provider_address = NoAddress THEN MaxCand ELSE 1)
    /\ resp \in [1..nFound -> Responses]
    /\ pc = "start"
    /\ providers = <<>>
    /\ task = <<>>
    /\ must_cancel = <<>>
    /\ nprobe = <<>>
    /\ ndownload = <<>>
    /\ completed = <<>>
    /\ cur = 0
    /\ picked = 0
    /\ outcome = NoOutcome
    /\ fallbackCalls = <<>>

RetrOff ==
    /\ impl = "sync" /\ parallel = FALSE /\ fallback = "none"
    /\ args = [piece_cid |-> "cidA", client_address |-> "0xClient",
               provider_address |-> NoAddress]
    /\ nFound = 0 /\ resp = <<>> /\ pc = "off" /\ providers = <<>>
    /\ task = <<>> /\ must_cancel = <<>> /\ nprobe = <<>> /\ ndownload = <<>>
    /\ completed = <<>> /\ cur = 0 /\ picked = 0 /\ outcome = NoOutcome
    /\ fallbackCalls = <<>>

MetaOff == mm = NoCall
ResOff == rq = NoCall /\ rres = NoCall /\ cs = NoCall /\ pf = NoCall

EnvUnchanged == UNCHANGED <<impl, parallel, fallback, args, nFound, resp, mm, rq, rres, cs, pf>>

\* the call that hands the fetch to the fallback retriever
CallFallback ==
    /\ pc' = "fallback"
    /\ fallbackCalls' = Append(fallbackCalls, fallback_args(args))
    /\ outcome' = outcome

\* every candidate was tried and none had the piece
Exhausted ==
    IF fallback # "none"
    THEN CallFallback
    ELSE /\ pc' = "done"
         /\ outcome' = exhausted_error(args)
         /\ UNCHANGED fallbackCalls

\* fetch_piece up to the start of the race or of the sequential loop
FindProviders ==
    /\ pc = "start"
    /\ IF nFound = 0
       THEN \* _find_providers raised ValueError
            /\ IF impl = "sync" /\ fallback # "none"
               THEN CallFallback
               ELSE /\ pc' = "done"
                    /\ outcome' = find_error
                    /\ UNCHANGED fallbackCalls
            /\ UNCHANGED <<providers, task, must_cancel, nprobe, ndownload, cur>>
       ELSE /\ providers' = [i \in 1..nFound |-> i]
            /\ task' = [i \in 1..nFound |-> "pending"]
            /\ must_cancel' = [i \in 1..nFound |-> FALSE]
            /\ nprobe' = [i \in 1..nFound |-> 0]
            /\ ndownload' = [i \in 1..nFound |-> 0]
            /\ IF use_parallel(impl, parallel, nFound)
               THEN pc' = "race" /\ cur' = 0
               ELSE pc' = "seq" /\ cur' = 1
            /\ UNCHANGED <<outcome, fallbackCalls>>
    /\ UNCHANGED <<completed, picked>>
    /\ EnvUnchanged

\* task i may take a step: it is the candidate of the sequential loop, or one
\* of the raced tasks, and no CancelledError is waiting for it
MayStep(i) ==
    /\ i \in DOMAIN task
    /\ ~must_cancel[i]
    /\ IF cur = 0 THEN pc # "start" ELSE pc = "seq" /\ i = cur

Finish(i, r) ==
    /\ task' = [task EXCEPT ![i] = r]
    /\ completed' = IF pc = "race" THEN Append(completed, i) ELSE completed

\* _try_fetch_from_provider starts and asks the registry for the endpoint
TaskStart(i) ==
    /\ MayStep(i)
    /\ task[i] = "pending"
    /\ task' = [task EXCEPT ![i] = "endpoint"]
    /\ UNCHANGED <<pc, providers, must_cancel, nprobe, ndownload, completed, cur,
                   picked, outcome, fallbackCalls>>
    /\ EnvUnchanged

\* _get_pdp_endpoint returns; with an endpoint the probe request is sent
EndpointReturn(i) ==
    /\ MayStep(i)
    /\ task[i] = "endpoint"
    /\ IF resp[i] = "endpointFail"
       THEN Finish(i, on_failure) /\ UNCHANGED nprobe
       ELSE /\ task' = [task EXCEPT ![i] = "probe"]
            /\ nprobe' = [nprobe EXCEPT ![i] = @ + 1]
            /\ UNCHANGED completed
    /\ UNCHANGED <<pc, providers, must_cancel, ndownload, cur, picked, outcome,
                   fallbackCalls>>
    /\ EnvUnchanged

\* the probe answers; on 200 the download request is sent
ProbeReturn(i) ==
    /\ MayStep(i)
    /\ task[i] = "probe"
    /\ IF resp[i] = "probeFail"
       THEN Finish(i, on_failure) /\ UNCHANGED ndownload
       ELSE /\ task' = [task EXCEPT ![i] = "download"]
            /\ ndownload' = [ndownload EXCEPT ![i] = @ + 1]
            /\ UNCHANGED completed
    /\ UNCHANGED <<pc, providers, must_cancel, nprobe, cur, picked, outcome,
                   fallbackCalls>>
    /\ EnvUnchanged

\* the download answers; on 200 the task returns the content
DownloadReturn(i) ==
    /\ MayStep(i)
    /\ task[i] = "download"
    /\ Finish(i, IF resp[i] = "ok" THEN "bytes" ELSE on_failure)
    /\ UNCHANGED <<pc, providers, must_cancel, nprobe, ndownload, cur, picked,
                   outcome, fallbackCalls>>
    /\ EnvUnchanged

\* async: a cancelled task receives CancelledError at its await and ends
TaskCancelled(i) ==
    /\ i \in DOMAIN task
    /\ must_cancel[i]
    /\ task[i] \notin Finished \cup {"cancelled"}
    /\ task' = [task EXCEPT ![i] = "cancelled"]
    /\ must_cancel' = [must_cancel EXCEPT ![i] = FALSE]
    /\ UNCHANGED <<pc, providers, nprobe, ndownload, completed, cur, picked,
                   outcome, fallbackCalls>>
    /\ EnvUnchanged

\* leaving the race with a result or an exception: the async coroutine
\* returns at once; the sync one leaves the executor's with-block, whose
\* shutdown(wait=True) joins every worker that is still running
LeaveRace(t) ==
    IF impl = "sync" /\ \E j \in DOMAIN t : t[j] \in Running
    THEN "shutdown" ELSE "done"

\* one iteration of the as_completed loop
ConsumeCompleted ==
    /\ pc = "race"
    /\ completed # <<>>
    /\ LET i == Head(completed) IN
       CASE task[i] = "bytes" ->
              /\ picked' = i
              /\ outcome' = BytesOf(i)
              /\ IF impl = "sync"
                 THEN /\ task' = cancel_futures(task)
                      /\ UNCHANGED must_cancel
                 ELSE /\ must_cancel' = cancel_tasks(task)
                      /\ UNCHANGED task
              /\ pc' = LeaveRace(task'  )
              /\ completed' = <<>>
              /\ UNCHANGED fallbackCalls
         [] task[i] = "raised" /\ impl = "sync" ->
              \* future.result() re-raises the task's exception
              /\ outcome' = CandidateError(i)
              /\ pc' = LeaveRace(task)
              /\ completed' = <<>>
              /\ UNCHANGED <<picked, task, must_cancel, fallbackCalls>>
         [] OTHER ->
              \* None (or, async, an exception swallowed by the loop): go on
              /\ completed' = Tail(completed)
              /\ IF Tail(completed) = <<>> /\ \A j \in DOMAIN task : task[j] \in Finished
                 THEN Exhausted
                 ELSE UNCHANGED <<pc, outcome, fallbackCalls>>
              /\ UNCHANGED <<picked, task, must_cancel>>
    /\ UNCHANGED <<providers, nprobe, ndownload, cur>>
    /\ EnvUnchanged

\* sync: the executor's shutdown returns once no worker is running
ShutdownDone ==
    /\ pc = "shutdown"
    /\ \A j \in DOMAIN task : task[j] \notin Running
    /\ pc' = "done"
    /\ UNCHANGED <<providers, task, must_cancel, nprobe, ndownload, completed, cur,
                   picked, outcome, fallbackCalls>>
    /\ EnvUnchanged

\* one iteration of the sequential loop, once the candidate's call returned
SeqStep ==
    /\ pc = "seq"
    /\ task[cur] \in Finished
    /\ CASE task[cur] = "bytes" ->
              /\ picked' = cur
              /\ outcome' = BytesOf(cur)
              /\ pc' = "done"
              /\ UNCHANGED <<cur, fallbackCalls>>
         [] task[cur] = "raised" ->
              /\ outcome' = CandidateError(cur)
              /\ pc' = "done"
              /\ UNCHANGED <<cur, picked, fallbackCalls>>
         [] OTHER ->
              /\ IF cur < Len(providers)
                 THEN cur' = cur + 1 /\ UNCHANGED <<pc, outcome, fallbackCalls>>
                 ELSE Exhausted /\ UNCHANGED cur
              /\ UNCHANGED picked
    /\ UNCHANGED <<providers, task, must_cancel, nprobe, ndownload, completed>>
    /\ EnvUnchanged

\* the fallback retriever answers: it returns bytes or raises, and
\* fetch_piece passes either on
FallbackReturn ==
    /\ pc = "fallback"
    /\ outcome' \in {FallbackBytes, FallbackError}
    /\ pc' = "done"
    /\ UNCHANGED <<providers, task, must_cancel, nprobe, ndownload, completed, cur,
                   picked, fallbackCalls>>
    /\ EnvUnchanged

TaskStep ==
    \E i \in Cands :
        \/ TaskStart(i)
        \/ EndpointReturn(i)
        \/ ProbeReturn(i)
        \/ DownloadReturn(i)
        \/ TaskCancelled(i)

RetrNext ==
    \/ FindProviders
    \/ TaskStep
    \/ ConsumeCompleted
    \/ ShutdownDone
    \/ SeqStep
    \/ FallbackReturn

InitRetr == RetrInit /\ MetaOff /\ ResOff

SpecRetr == InitRetr /\ [][RetrNext]_vars

\* the same retriever under a scheduler that lets every started request be
\* answered and every runnable task run (the event loop, the worker threads)
SpecRetrFair == InitRetr /\ [][RetrNext]_vars /\ WF_vars(RetrNext)

\* under that scheduler the race of C1 ends: fetch_piece returns
RaceTerminates == (impl = "async" /\ parallel) ~> (pc = "done")

(* ------------------- properties of the retriever ---------------------- *)

OkCands == {i \in DOMAIN resp : resp[i] = "ok"}
NoFurtherRequest == nprobe' = nprobe /\ ndownload' = ndownload
Returned == pc = "done"

\* the case of C1: the async retriever races at least two candidates of
\* which exactly one has the piece
RaceOfOne ==
    /\ impl = "async"
    /\ parallel
    /\ nFound >= 2
    /\ Cardinality(OkCands) = 1

\* C1: in the async retriever's parallel mode, with N >= 2 candidates of
\* which exactly one succeeds, fetch_piece is never stuck before it returns
\* (some task or the loop can always take a step), what it returns is that
\* candidate's bytes, and once it has returned no candidate task sends a
\* further probe or download request.
C1_RaceSemantics ==
    /\ [](RaceOfOne /\ Returned => \E i \in OkCands : outcome = BytesOf(i))
    /\ [](RaceOfOne /\ ~Returned => ENABLED RetrNext)
    /\ [][RaceOfOne /\ Returned => NoFurtherRequest]_vars

C1_Witness ==
    /\ RaceOfOne
    /\ Returned
    /\ outcome.kind = "bytes"
    /\ \E j \in DOMAIN task : task[j] = "cancelled" /\ nprobe[j] = 1 /\ ndownload[j] = 0

\* C2: in the sync retriever, once a successful result has been taken every
\* other in-flight task is cancelled: no candidate sends a further request
\* past the point of success.
C2_LosersStop ==
    [][impl = "sync" /\ picked # 0 => NoFurtherRequest]_vars

\* C3: in parallel mode of either retriever, once a successful result has
\* been taken fetch_piece has returned it: it never waits for a candidate
\* that is still outstanding.
C3_NoStall ==
    (cur = 0 /\ picked # 0) => Returned

\* the async half of C3 does hold: a winner is returned in the step that
\* finds it, whatever the other tasks are doing
C3_AsyncNoStall ==
    (impl = "async" /\ cur = 0 /\ picked # 0) => Returned

C3_Witness ==
    /\ impl = "sync"
    /\ pc = "shutdown"
    /\ picked # 0
    /\ \E j \in DOMAIN task : task[j] \in Running

\* C4: with parallel = False the candidates are contacted in list order, one
\* at a time: a candidate is started only after every earlier one has
\* yielded no result, so none after the first successful one is contacted.
C4_SequentialOrder ==
    (~parallel /\ pc # "start") =>
        /\ \A j \in DOMAIN task :
              task[j] # "pending" => \A i \in 1..(j - 1) : task[i] = "none"
        /\ \A j \in DOMAIN task :
              (nprobe[j] > 0 \/ ndownload[j] > 0) => \A i \in 1..(j - 1) : task[i] = "none"
        /\ Cardinality({j \in DOMAIN task : task[j] \in Running}) <= 1

C4_Witness ==
    /\ ~parallel
    /\ Returned
    /\ Len(providers) = 3
    /\ task = <<"none", "bytes", "pending">>
    /\ nprobe[1] = 1 /\ nprobe[3] = 0
    /\ outcome = BytesOf(2)

AllYieldedNone == \A i \in DOMAIN task : task[i] = "none"

\* C5: the fallback retriever is called at most once, only when it is
\* configured, only after every candidate has yielded no result and none
\* succeeded, and with fetch_piece's own arguments; without a fallback the
\* exhaustion of the candidates ends in an error naming the piece.
C5_Fallback ==
    /\ Len(fallbackCalls) <= 1
    /\ \A k \in DOMAIN fallbackCalls :
          fallbackCalls[k] = <<args.piece_cid, args.client_address, args.provider_address>>
    /\ fallbackCalls # <<>> =>
          /\ fallback # "none"
          /\ AllYieldedNone
          /\ picked = 0
          /\ \A i \in DOMAIN resp : i \in DOMAIN task
    /\ (Returned /\ fallback = "none" /\ providers # <<>> /\ AllYieldedNone) =>
          /\ outcome.kind = "error"
          /\ outcome.piece = args.piece_cid

C5_Witness ==
    /\ Returned
    /\ Len(providers) >= 2
    /\ AllYieldedNone
    /\ Len(fallbackCalls) = 1
    /\ outcome = FallbackBytes

\* C6: a candidate's failure (endpoint lookup, probe, download) never leaves
\* fetch_piece: the task ends with no result, the candidate gets at most
\* one probe and one download, and a candidate that has the piece still wins.
C6_FailuresAbsorbed ==
    /\ outcome.cause # "candidate"
    /\ \A i \in DOMAIN task :
          /\ task[i] # "raised"
          /\ nprobe[i] <= 1
          /\ ndownload[i] <= 1
          /\ ndownload[i] <= nprobe[i]
    /\ (Returned /\ OkCands # {}) =>
          /\ outcome.kind = "bytes"
          /\ outcome.src \in OkCands

C6_Witness ==
    /\ Returned
    /\ \E i, j, k \in DOMAIN task :
          /\ resp[i] = "probeFail" /\ task[i] = "none"
          /\ resp[j] = "downloadFail" /\ task[j] = "none"
          /\ resp[k] = "ok" /\ outcome = BytesOf(k)

\* what a finished fetch_piece call ended in: the bytes of a candidate, the
\* delegation to the fallback retriever, or a failure
outcome_class ==
    IF outcome.kind = "bytes" THEN "bytes"
    ELSE IF fallbackCalls # <<>> THEN "fallback"
    ELSE "failure"

\* the outcome the collaborators' responses call for, whichever retriever
\* is asked: a candidate that has the piece gives bytes; otherwise a
\* configured fallback is delegated to; otherwise the call fails
expected_class ==
    IF OkCands # {} THEN "bytes"
    ELSE IF fallback # "none" THEN "fallback"
    ELSE "failure"

\* C37: ChainRetriever.fetch_piece and AsyncChainRetriever.fetch_piece end in
\* the same outcome for the same collaborator responses: what a finished call
\* ended in (bytes, delegation to the fallback, failure) is determined by the
\* responses and the configuration alone, not by which retriever ran,
\* including when discovery fails and when one candidate exists.
C37_SameOutcome ==
    Returned => outcome_class = expected_class

\* the async retriever returned after discovery failed with a fallback
\* configured
C37_Witness ==
    /\ Returned
    /\ impl = "async"
    /\ nFound = 0
    /\ fallback # "none"
    /\ outcome = find_error
    /\ fallbackCalls = <<>>

(* ======================= metadata_matches ============================= *)

MetaKeys == {"withCDN", "source", "tag"}
MetaVals == {"", "x"}

\* the metadata maps (Dict[str, str]) with at most MaxMeta entries
MetaMaps ==
    UNION {[D -> MetaVals] : D \in {S \in SUBSET MetaKeys : Cardinality(S) <= MaxMeta}}

\* dict.get(key): the value, or None for a key the dict does not hold
PyNone == "<None>"
dict_get(d, key) == IF key \in DOMAIN d THEN d[key] ELSE PyNone

\* len(dict)
dict_len(d) == Cardinality(DOMAIN d)

metadata_matches_subset(data_set_metadata, requested_metadata) ==
    \A key \in DOMAIN requested_metadata :
        dict_get(data_set_metadata, key) = requested_metadata[key]

metadata_matches_empty_first(data_set_metadata, requested_metadata) ==
    IF DOMAIN requested_metadata = {} THEN TRUE
    ELSE IF dict_len(data_set_metadata) # dict_len(requested_metadata) THEN FALSE
    ELSE \A key \in DOMAIN requested_metadata :
            dict_get(data_set_metadata, key) = requested_metadata[key]

\* metadata_matches, statement by statement: the length test, the empty
\* request, then the loop over the requested items
metadata_matches(data_set_metadata, requested_metadata) ==
    IF dict_len(data_set_metadata) # dict_len(requested_metadata) THEN FALSE
    ELSE IF DOMAIN requested_metadata = {} THEN TRUE
    ELSE \A key \in DOMAIN requested_metadata :
            dict_get(data_set_metadata, key) = requested_metadata[key]

\* a call of metadata_matches(M, R)
MetadataMatchesCall ==
    /\ \E M \in MetaMaps, R \in MetaMaps :
          mm' = [kind |-> "call", M |-> M, R |-> R, result |-> metadata_matches(M, R)]
    /\ UNCHANGED <<impl, parallel, fallback, args, nFound, resp, pc, providers, task,
                   must_cancel, nprobe, ndownload, completed, cur, picked, outcome,
                   fallbackCalls, rq, rres, cs, pf>>

InitMeta == RetrOff /\ MetaOff /\ ResOff

SpecMeta == InitMeta /\ [][MetadataMatchesCall]_vars

(* ------------------ properties of metadata_matches -------------------- *)

Called == mm.kind = "call"

\* C7: metadata_matches(M, R) is true exactly when M and R have the same
\* number of entries and every key of R maps to the same value in M, which
\* is exactly when the two maps are equal; a strict superset does not match.
C7_ExactMatch ==
    Called =>
        /\ mm.result <=>
              /\ Cardinality(DOMAIN mm.M) = Cardinality(DOMAIN mm.R)
              /\ \A k \in DOMAIN mm.R : k \in DOMAIN mm.M /\ mm.M[k] = mm.R[k]
        /\ mm.result <=>
              /\ DOMAIN mm.M = DOMAIN mm.R
              /\ \A k \in DOMAIN mm.R : mm.M[k] = mm.R[k]

C7_Witness ==
    /\ Called
    /\ DOMAIN mm.R # {}
    /\ DOMAIN mm.R \subseteq DOMAIN mm.M
    /\ DOMAIN mm.M # DOMAIN mm.R
    /\ \A k \in DOMAIN mm.R : mm.M[k] = mm.R[k]
    /\ mm.result = FALSE

\* C8 as stated: metadata_matches(M, {}) is true for any M.
C8_EmptyRequestMatchesAll ==
    (Called /\ DOMAIN mm.R = {}) => mm.result = TRUE

\* C8 as the code has it: metadata_matches(M, {}) is true exactly when M is
\* empty too; a dataset with any metadata does not match an empty request.
C8_EmptyRequestMatchesEmpty ==
    (Called /\ DOMAIN mm.R = {}) => (mm.result <=> DOMAIN mm.M = {})

C8_Witness ==
    /\ Called
    /\ DOMAIN mm.R = {}
    /\ DOMAIN mm.M = {"withCDN"}
    /\ mm.result = FALSE

(* ==================== _resolve_by_data_set_id ========================= *)

ProviderIds == 1..MaxProv

\* Optional[int] / Optional[str] options that were not given
NotGiven == 0

\* the data set id the caller names
TheDataSetId == 42

\* str.lower() on the addresses used here
Lower(a) ==
    CASE a = "0xClient" -> "0xclient"
      [] a = "0xCLIENT" -> "0xclient"
      [] a = "0xOther"  -> "0xother"
      [] OTHER -> a

EmptyMeta == [k \in {} |-> ""]
CdnMeta == [k \in {"withCDN"} |-> ""]
CdnSourceMeta == [k \in {"withCDN", "source"} |-> IF k = "withCDN" THEN "" ELSE "x"]

\* the chain state and the request one resolution runs against:
\*   status        how validate_data_set / get_data_set answer for the data set
\*   payer, ds_provider_id, ds_metadata, client_data_set_id   the data set
\*   reg[p]        provider p in the registry: "absent", "active", "inactive";
\*                 provider p, when registered, is registered under address p
\*   approved, has_endpoint   is_provider_approved and the serviceURL
\*                 capability of the data set's provider
\*   provider_id, provider_address, requested_metadata   the caller's options
Requests ==
    [impl : {"sync", "async"},
     client_address : {"0xClient"},
     status : {"ok", "notLive", "notManaged", "missing"},
     payer : {"0xClient", "0xCLIENT", "0xOther"},
     ds_provider_id : ProviderIds,
     ds_metadata : {EmptyMeta, CdnMeta, CdnSourceMeta},
     client_data_set_id : {7},
     reg : [ProviderIds -> {"absent", "active", "inactive"}],
     approved : BOOLEAN,
     has_endpoint : BOOLEAN,
     provider_id : {NotGiven} \cup ProviderIds,
     provider_address : {NotGiven} \cup ProviderIds,
     requested_metadata : {EmptyMeta, CdnMeta, CdnSourceMeta}]

ResError(reason) == [kind |-> "error", reason |-> reason]

\* sp_registry.get_provider_by_address: the provider id, or 0 for None
get_provider_by_address(q, address) ==
    IF address \in ProviderIds /\ q.reg[address] # "absent" THEN address ELSE 0

\* sp_registry.get_provider: the provider id, or 0 for None
get_provider(q, provider_id) ==
    IF provider_id \in ProviderIds /\ q.reg[provider_id] # "absent" THEN provider_id ELSE 0

\* the ownership check: payer and caller compared in lower case
payer_differs_exact(q) == q.payer # q.client_address
payer_differs(q) == Lower(q.payer) # Lower(q.client_address)

\* the metadata check, skipped when no metadata was requested
metadata_mismatch_unskipped(q) == ~metadata_matches(q.ds_metadata, q.requested_metadata)
metadata_mismatch(q) ==
    q.requested_metadata # EmptyMeta /\ ~metadata_matches(q.ds_metadata, q.requested_metadata)

\* the provider-id half of the consistency check
provider_id_conflict_ignored(q) == FALSE
provider_id_conflict(q) ==
    q.provider_id # NotGiven /\ q.provider_id # q.ds_provider_id

\* the provider-address half of the consistency check
provider_address_conflict(q) ==
    /\ q.provider_address # NotGiven
    /\ LET provider_by_addr == get_provider_by_address(q, q.provider_address) IN
       provider_by_addr # 0 /\ provider_by_addr # q.ds_provider_id

\* _resolve_by_data_set_id, check by check in the order of the code
resolve_by_data_set_id(q) ==
    IF q.status = "notLive" THEN ResError("not_live")
    ELSE IF q.status = "notManaged" THEN ResError("not_managed")
    ELSE IF q.status = "missing" THEN ResError("not_exists")
    ELSE IF payer_differs(q) THEN ResError("not_owned")
    ELSE IF provider_id_conflict(q) THEN ResError("provider_mismatch")
    ELSE IF provider_address_conflict(q) THEN ResError("provider_address_mismatch")
    ELSE IF get_provider(q, q.ds_provider_id) = 0 THEN ResError("provider_not_found")
    ELSE IF q.impl = "async" /\ q.reg[q.ds_provider_id] # "active"
         THEN ResError("provider_inactive")
    ELSE IF q.impl = "async" /\ ~q.approved THEN ResError("not_approved")
    ELSE IF ~q.has_endpoint THEN ResError("no_endpoint")
    ELSE IF metadata_mismatch(q) THEN ResError("metadata_mismatch")
    ELSE [kind |-> "selection",
          provider |-> get_provider(q, q.ds_provider_id),
          data_set_id |-> TheDataSetId,
          client_data_set_id |-> q.client_data_set_id,
          is_existing |-> TRUE,
          metadata |-> q.ds_metadata]

\* one call of _resolve_by_data_set_id
ResolveByDataSetId ==
    /\ rres = NoCall
    /\ rres' = resolve_by_data_set_id(rq)
    /\ UNCHANGED <<impl, parallel, fallback, args, nFound, resp, pc, providers, task,
                   must_cancel, nprobe, ndownload, completed, cur, picked, outcome,
                   fallbackCalls, mm, rq, cs, pf>>

InitRes ==
    /\ RetrOff /\ MetaOff /\ cs = NoCall /\ pf = NoCall
    /\ rq \in Requests /\ rres = NoCall

SpecRes == InitRes /\ [][ResolveByDataSetId]_vars

(* --------------- properties of _resolve_by_data_set_id ---------------- *)

Resolved == rres.kind # "nocall"

\* the checks that come before the consistency check all pass
DataSetUsable == rq.status = "ok" /\ Lower(rq.payer) = Lower(rq.client_address)

\* C9: with an explicit provider_id that differs from the data set's
\* provider_id, resolution by data set id always fails and returns no
\* selection, in both resolvers; for a data set that is live, managed and
\* owned by the caller the failure is the provider-mismatch error.
C9_ProviderIdMismatchFails ==
    (Resolved /\ rq.provider_id # NotGiven /\ rq.provider_id # rq.ds_provider_id) =>
        /\ rres.kind = "error"
        /\ DataSetUsable => rres.reason = "provider_mismatch"

C9_Witness ==
    /\ Resolved
    /\ DataSetUsable
    /\ rq.provider_id # NotGiven
    /\ rq.provider_id # rq.ds_provider_id
    /\ rq.reg[rq.ds_provider_id] = "active"
    /\ rq.reg[rq.provider_id] = "active"
    /\ rq.approved /\ rq.has_endpoint
    /\ rq.provider_address = NotGiven
    /\ rres = ResError("provider_mismatch")

\* C10: with an explicit provider_address, resolution by data set id
\* succeeds only when the address is registered to the data set's provider:
\* the provider of a selection is the one registered under the address, and
\* an address of another provider or of no provider makes resolution fail.
C10_AddressBindsProvider ==
    (Resolved /\ rq.provider_address # NotGiven) =>
        /\ rres.kind = "selection" =>
              /\ get_provider_by_address(rq, rq.provider_address) # 0
              /\ rres.provider = get_provider_by_address(rq, rq.provider_address)
        /\ get_provider_by_address(rq, rq.provider_address) # rq.ds_provider_id =>
              rres.kind = "error"

\* the part of C10 the code does keep: an address registered to another
\* provider than the data set's makes resolution fail
C10_OtherProviderFails ==
    (/\ Resolved
     /\ rq.provider_address # NotGiven
     /\ get_provider_by_address(rq, rq.provider_address) # 0
     /\ get_provider_by_address(rq, rq.provider_address) # rq.ds_provider_id) =>
        rres.kind = "error"

C10_Witness ==
    /\ Resolved
    /\ rq.provider_address # NotGiven
    /\ get_provider_by_address(rq, rq.provider_address) = 0
    /\ rres.kind = "selection"

\* C11: resolution by data set id returns no selection whenever the data
\* set's payer differs from the caller's address, the two compared without
\* regard to case; for a data set that passed validation the failure is the
\* ownership error, and the ownership error is raised for no other reason.
C11_NotOwnedFails ==
    Resolved =>
        /\ Lower(rq.payer) # Lower(rq.client_address) =>
              /\ rres.kind = "error"
              /\ rq.status = "ok" => rres.reason = "not_owned"
        /\ (rres.kind = "error" /\ rres.reason = "not_owned") =>
              Lower(rq.payer) # Lower(rq.client_address)

C11_Witness ==
    /\ Resolved
    /\ rq.status = "ok"
    /\ rq.payer = "0xOther"
    /\ rq.provider_id = NotGiven /\ rq.provider_address = NotGiven
    /\ rq.reg[rq.ds_provider_id] = "active" /\ rq.approved /\ rq.has_endpoint
    /\ rres = ResError("not_owned")

\* every check of the resolver that comes before the metadata check passes
ReachesMetadataCheck ==
    /\ DataSetUsable
    /\ ~(rq.provider_id # NotGiven /\ rq.provider_id # rq.ds_provider_id)
    /\ ~(rq.provider_address # NotGiven
         /\ rq.reg[rq.provider_address] # "absent"
         /\ rq.provider_address # rq.ds_provider_id)
    /\ rq.reg[rq.ds_provider_id] # "absent"
    /\ rq.impl = "async" => (rq.reg[rq.ds_provider_id] = "active" /\ rq.approved)
    /\ rq.has_endpoint

\* C12: with a non-empty requested metadata map, resolution by data set id
\* fails with the metadata-mismatch error unless the data set's metadata
\* equals the requested map exactly; with an empty requested map the check
\* is skipped and resolution succeeds whatever the data set's metadata is.
C12_MetadataChecked ==
    Resolved =>
        /\ (rq.requested_metadata # EmptyMeta /\ rq.ds_metadata # rq.requested_metadata) =>
              /\ rres.kind = "error"
              /\ ReachesMetadataCheck => rres.reason = "metadata_mismatch"
        /\ (rres.kind = "error" /\ rres.reason = "metadata_mismatch") =>
              (rq.requested_metadata # EmptyMeta /\ rq.ds_metadata # rq.requested_metadata)
        /\ (ReachesMetadataCheck /\ rq.requested_metadata = EmptyMeta) =>
              (rres.kind = "selection" /\ rres.metadata = rq.ds_metadata)
        /\ (ReachesMetadataCheck /\ rq.ds_metadata = rq.requested_metadata) =>
              rres.kind = "selection"

C12_Witness ==
    /\ Resolved
    /\ ReachesMetadataCheck
    /\ rq.requested_metadata = CdnMeta
    /\ rq.ds_metadata = CdnSourceMeta
    /\ rres = ResError("metadata_mismatch")

(* ====================================================================== *)
(* _resolve_by_provider_id: resolution for an explicitly requested        *)
(* provider, StorageContext (sync) and AsyncStorageContext (async)        *)
(* ====================================================================== *)

\* the ids of the data sets the chain may list for the caller
DataSetIds == {101, 102}

\* a listed data set: DataSetInfo, plus what the PDP verifier says of it
DataSets ==
    [provider_id : ProviderIds,
     pdp_end_epoch : {0, 1},
     client_data_set_id : {7},
     metadata : {EmptyMeta, CdnMeta},
     status : {"ok", "notLive", "notManaged"}]

Absent == [status |-> "absent"]

\* requests of _resolve_by_provider_id, with the registry and chain state
ProvRequests ==
    [impl : {"sync", "async"},
     provider_id : ProviderIds,
     provider_state : {"absent", "active", "inactive"},
     approval : {"approved", "not_approved", "error"},
     has_endpoint : BOOLEAN,
     force_create : BOOLEAN,
     requested_metadata : {EmptyMeta, CdnMeta},
     reads : {"ok", "list_fails", "metadata_fails"},
     datasets : [DataSetIds -> DataSets \cup {Absent}]]

\* the ids in S in ascending order
RECURSIVE Ascending(_)
Ascending(S) ==
    IF S = {} THEN <<>>
    ELSE LET m == CHOOSE x \in S : \A y \in S : x <= y
         IN  <<m>> \o Ascending(S \ {m})

\* get_client_data_sets: the caller's data sets, in list order
get_client_data_sets(q) ==
    Ascending({d \in DataSetIds : q.datasets[d].status # "absent"})

ProvError(reason, calls) == [kind |-> "error", reason |-> reason, calls |-> calls]

\* the sentinel result: a data set has to be created on the provider
NewDataSet(q, calls) ==
    [kind |-> "selection", provider |-> q.provider_id, data_set_id |-> -1,
     client_data_set_id |-> 0, is_existing |-> FALSE,
     metadata |-> q.requested_metadata, calls |-> calls]

\* _ensure_provider_approved: "none", or the error it raises
approval_error_ignored(q) == "none"
approval_error(q) ==
    IF q.approval = "approved" THEN "none"
    ELSE IF q.approval = "not_approved" THEN "not_approved"
    ELSE "approval_check_failed"

\* a data set of the list qualifies for reuse on the requested provider
ds_not_ended(q, ds) == ds.pdp_end_epoch = 0
ds_any_epoch(q, ds) == ds.provider_id = q.provider_id
ds_on_provider(q, ds) == ds.provider_id = q.provider_id /\ ds.pdp_end_epoch = 0

\* the loop over the listed data sets: the id it returns with, 0 when it
\* ends without a match, -1 when a metadata read raises
RECURSIVE find_existing(_, _)
find_existing(q, ids) ==
    IF ids = <<>> THEN 0
    ELSE LET ds == q.datasets[Head(ids)]
         IN  IF ds_on_provider(q, ds)
             THEN IF q.reads = "metadata_fails" THEN -1
                  ELSE IF metadata_matches(ds.metadata, q.requested_metadata)
                       THEN Head(ids)
                       ELSE find_existing(q, Tail(ids))
             ELSE find_existing(q, Tail(ids))

\* the collaborator calls made before the endpoint lookup
calls_before_endpoint(q) ==
    IF q.impl = "async" THEN <<"get_provider", "is_provider_approved">>
    ELSE <<"get_provider">>

resolve_by_provider_id(q) ==
    LET c1 == calls_before_endpoint(q)
        c2 == c1 \o <<"get_pdp_endpoint">>
        c3 == c2 \o <<"get_client_data_sets">>
        found == find_existing(q, get_client_data_sets(q))
    IN  IF q.provider_state = "absent"
        THEN ProvError("provider_not_found", <<"get_provider">>)
        ELSE IF q.impl = "async" /\ q.provider_state # "active"
        THEN ProvError("provider_inactive", <<"get_provider">>)
        ELSE IF q.impl = "async" /\ approval_error(q) # "none"
        THEN ProvError(approval_error(q), c1)
        ELSE IF ~q.has_endpoint THEN ProvError("no_endpoint", c2)
        ELSE IF q.force_create THEN NewDataSet(q, c2)
        ELSE IF q.reads = "list_fails" THEN NewDataSet(q, c3)
        ELSE IF found > 0
        THEN [kind |-> "selection", provider |-> q.provider_id,
              data_set_id |-> found,
              client_data_set_id |-> q.datasets[found].client_data_set_id,
              is_existing |-> TRUE,
              metadata |-> q.datasets[found].metadata,
              calls |-> c3 \o <<"get_all_data_set_metadata">>]
        ELSE NewDataSet(q, c3)

\* one call of _resolve_by_provider_id
ResolveByProviderId ==
    /\ rres = NoCall
    /\ rres' = resolve_by_provider_id(rq)
    /\ UNCHANGED <<impl, parallel, fallback, args, nFound, resp, pc, providers, task,
                   must_cancel, nprobe, ndownload, completed, cur, picked, outcome,
                   fallbackCalls, mm, rq, cs, pf>>

InitProv ==
    /\ RetrOff /\ MetaOff /\ cs = NoCall /\ pf = NoCall
    /\ rq \in ProvRequests /\ rres = NoCall

SpecProv == InitProv /\ [][ResolveByProviderId]_vars

(* --------------- properties of _resolve_by_provider_id ---------------- *)

\* the resolver went as far as listing the caller's data sets
Searched == \E i \in 1..Len(rres.calls) : rres.calls[i] = "get_client_data_sets"

\* C13: the synchronous resolver, asked for a provider the storage service
\* has not approved, fails before any data set is searched and returns no
\* selection.
C13_SyncApprovalChecked ==
    (Resolved /\ rq.impl = "sync" /\ rq.approval = "not_approved") =>
        (rres.kind = "error" /\ ~Searched)

C13_Witness ==
    /\ Resolved /\ rq.impl = "sync" /\ rq.approval = "not_approved"
    /\ rq.provider_state = "active" /\ rq.has_endpoint
    /\ rres.kind = "selection"

\* C14: the asynchronous resolver, asked for a provider that is inactive or
\* not approved, fails with the matching error before any data set is
\* searched, and never returns a selection for such a provider.
C14_AsyncActiveApproved ==
    (Resolved /\ rq.impl = "async") =>
        /\ (rq.provider_state = "inactive" \/ rq.approval # "approved") =>
              (rres.kind = "error" /\ ~Searched)
        /\ rq.provider_state = "inactive" => rres.reason = "provider_inactive"
        /\ (rq.provider_state = "active" /\ rq.approval = "not_approved") =>
              rres.reason = "not_approved"
        /\ rres.kind = "selection" =>
              (rq.provider_state = "active" /\ rq.approval = "approved")

C14_Witness ==
    /\ Resolved /\ rq.impl = "async"
    /\ rq.provider_state = "active" /\ rq.approval = "not_approved"
    /\ rq.has_endpoint /\ ~rq.force_create
    /\ \E d \in DataSetIds : /\ rq.datasets[d].status = "ok"
                             /\ ds_on_provider(rq, rq.datasets[d])
                             /\ rq.datasets[d].metadata = rq.requested_metadata
    /\ rres.kind = "error" /\ rres.reason = "not_approved"

\* C15: a data set that is not live, or not managed by the storage service
\* contract, is never returned as a reusable data set.
C15_ReusedIsLiveAndManaged ==
    (Resolved /\ rres.kind = "selection" /\ rres.is_existing) =>
        rq.datasets[rres.data_set_id].status = "ok"

(* ====================================================================== *)
(* StorageContext._generate_idempotency_key                               *)
(* ====================================================================== *)

MaxArgs == 2

\* Strings are sequences of symbols. ":" is the separator the function
\* writes; any other symbol stands for a run of characters without ":".
Colon == <<":">>

\* the strings passed as operation and as arguments
ArgStrings == {<<>>, <<"a">>, <<":">>, <<"a", ":">>, <<":", "a">>, <<"a", ":", "a">>}
Operations == {<<"op">>, <<"op", ":", "a">>}
ArgTuples == UNION {[1..n -> ArgStrings] : n \in 0..MaxArgs}

\* ":".join(args)
RECURSIVE Join(_)
Join(a) ==
    IF a = <<>> THEN <<>>
    ELSE IF Len(a) = 1 THEN a[1]
    ELSE a[1] \o Colon \o Join(Tail(a))

\* hashlib.sha256(content).hexdigest()[:32], taken as injective
Sha256Hex32(content) == [sha256_32 |-> content]

\* f"{operation}:" + ":".join(args)
key_content(operation, a) == operation \o Colon \o Join(a)

generate_idempotency_key(operation, a) == Sha256Hex32(key_content(operation, a))

\* one call of _generate_idempotency_key; two calls are kept to compare
GenerateIdempotencyKey ==
    /\ Len(pf.calls) < 2
    /\ \E operation \in Operations, a \in ArgTuples :
          pf' = [pf EXCEPT !.calls = Append(@,
                    [operation |-> operation, args |-> a,
                     key |-> generate_idempotency_key(operation, a)])]
    /\ UNCHANGED <<impl, parallel, fallback, args, nFound, resp, pc, providers, task,
                   must_cancel, nprobe, ndownload, completed, cur, picked, outcome,
                   fallbackCalls, mm, rq, rres, cs>>

InitKey ==
    /\ RetrOff /\ MetaOff /\ rq = NoCall /\ rres = NoCall /\ cs = NoCall
    /\ pf = [kind |-> "_generate_idempotency_key", calls |-> <<>>]

SpecKey == InitKey /\ [][GenerateIdempotencyKey]_vars

(* -------------- properties of _generate_idempotency_key --------------- *)

TwoKeys == Len(pf.calls) = 2

\* C18: two calls whose (operation, args...) tuples differ, in the
\* operation, in an argument, or in how the same characters are split
\* into arguments, get different keys.
C18_KeysSeparate ==
    TwoKeys =>
        (<<pf.calls[1].operation, pf.calls[1].args>> # <<pf.calls[2].operation, pf.calls[2].args>>
            => pf.calls[1].key # pf.calls[2].key)

C18_Witness ==
    /\ TwoKeys
    /\ pf.calls[1].operation = pf.calls[2].operation
    /\ pf.calls[1].args = <<<<"a", ":", "a">>>>
    /\ pf.calls[2].args = <<<<"a">>, <<"a">>>>
    /\ pf.calls[1].key = pf.calls[2].key

(* ====================================================================== *)
(* PDPServer.create_data_set and PDPServer.add_pieces: how the server's   *)
(* answer to the POST becomes a result or an exception                    *)
(* ====================================================================== *)

Statuses == {200, 201, 202, 409, 422, 500}

\* a call, with the answer the server gives to its POST
PdpCalls ==
    [method : {"create_data_set", "add_pieces"},
     idempotency_key : {"omitted", "given"},
     status : Statuses,
     body : {"names_existing", "malformed"},
     location : {"missing", "0x", "no0x"}]

PdpRaise(error, sent) == [kind |-> "raise", error |-> error, request_sent |-> sent]

\* both methods take (…, extra_data) and nothing more: a further argument
\* is rejected by the call itself
extra_argument_rejected(call) == call.idempotency_key = "given"

pdp_post(call) ==
    IF extra_argument_rejected(call) THEN PdpRaise("TypeError", FALSE)
    ELSE IF call.status \notin {201, 202} THEN PdpRaise("RuntimeError:unexpected_status", TRUE)
    ELSE IF call.location = "missing" THEN PdpRaise("RuntimeError:missing_location", TRUE)
    ELSE IF call.method = "create_data_set" /\ call.location = "no0x"
         THEN PdpRaise("RuntimeError:invalid_tx_hash", TRUE)
    ELSE [kind |-> "response", method |-> call.method, request_sent |-> TRUE]

\* one call of create_data_set or add_pieces
PdpCall ==
    /\ pf = NoCall
    /\ \E call \in PdpCalls :
          pf' = [kind |-> "pdp", call |-> call, result |-> pdp_post(call)]
    /\ UNCHANGED <<impl, parallel, fallback, args, nFound, resp, pc, providers, task,
                   must_cancel, nprobe, ndownload, completed, cur, picked, outcome,
                   fallbackCalls, mm, rq, rres, cs>>

InitPdp == RetrOff /\ MetaOff /\ ResOff

SpecPdp == InitPdp /\ [][PdpCall]_vars

(* ------------- properties of the PDP server's POST methods ------------ *)

PdpCalled == pf.kind = "pdp"

\* C20: both methods accept an idempotency key; a 409 answer raises the
\* already-exists error, a 422 answer the idempotency error, and any other
\* unexpected status an error different from both.
C20_DistinguishableErrors ==
    PdpCalled =>
        /\ pf.result.request_sent
        /\ pf.call.status = 409 =>
              (pf.result.kind = "raise" /\ pf.result.error = "AlreadyExistsError")
        /\ pf.call.status = 422 =>
              (pf.result.kind = "raise" /\ pf.result.error = "IdempotencyError")
        /\ pf.call.status \in {200, 500} =>
              (pf.result.kind = "raise"
               /\ pf.result.error \notin {"AlreadyExistsError", "IdempotencyError"})

C20_Witness ==
    /\ PdpCalled
    /\ pf.call.idempotency_key = "omitted"
    /\ pf.call.status = 409
    /\ pf.result = PdpRaise("RuntimeError:unexpected_status", TRUE)

(* ====================================================================== *)
(* StorageContext.create: the creation of a data set after resolution     *)
(* ====================================================================== *)

MaxCalls == 2

ClientAddress == <<"0xClient">>

\* str(n) and str(sorted(metadata.items())) as strings of symbols
Str(n) == <<ToString(n)>>
repr_sorted_items(m) ==
    IF m = EmptyMeta THEN <<"[]">>
    ELSE IF m = CdnMeta THEN <<"[('withCDN', '')]">>
    ELSE <<"[('source', 'x'), ('withCDN', '')]">>

\* what _resolve_provider_and_data_set hands to create
Resolutions ==
    [provider : ProviderIds, data_set_id : {-1}, client_data_set_id : {0},
     requested_metadata : {EmptyMeta, CdnMeta}]
    \cup [provider : ProviderIds, data_set_id : DataSetIds, client_data_set_id : {7},
          requested_metadata : {EmptyMeta, CdnMeta}]

\* get_client_data_sets as create sees it: a list, or an exception
Listings == [ok : {TRUE}, ids : SUBSET DataSetIds] \cup [ok : {FALSE}]

\* rand_u256() as AsyncStorageContext.create draws it
RandClientIds == {11, 12}

\* next_client_id: one more than the listed data sets, 1 when listing fails
next_client_id(listing) ==
    IF ~listing.ok THEN 1 ELSE Cardinality(listing.ids) + 1

\* the key create sends with the create-dataset request
create_key(r, next) ==
    generate_idempotency_key(<<"create_dataset">>,
        <<ClientAddress, Str(r.provider), Str(next),
          repr_sorted_items(r.requested_metadata)>>)

\* existing_resource_id of the already-exists report: None, a text that
\* int() rejects, or the decimal text of a data set id
NoResourceId == 0
BadResourceId == -1

\* what the PDP server reports for the create-dataset request
CreateOutcomes ==
    [kind : {"created"}, data_set_id : DataSetIds, existing_resource_id : {NoResourceId}]
    \cup [kind : {"already_exists"}, data_set_id : {NoResourceId},
          existing_resource_id : {NoResourceId, BadResourceId} \cup DataSetIds]
    \cup [kind : {"idempotency_conflict", "unconfirmed", "other_error"},
          data_set_id : {NoResourceId},
          existing_resource_id : {NoResourceId}]

CreateRaise(error) == [kind |-> "raise", error |-> error]
Context(r, data_set_id, client_data_set_id) ==
    [kind |-> "context", provider |-> r.provider, data_set_id |-> data_set_id,
     client_data_set_id |-> client_data_set_id, metadata |-> r.requested_metadata]

NoResult == [kind |-> "none"]
NotRead == [kind |-> "notread"]

\* the payer get_data_set reports for a data set: the caller or another
\* account
Payers == {"0xClient", "0xOther"}

\* the data set a confirmed creation is read back as: the create-dataset
\* request went to the resolved provider's server and carried the caller's
\* signature, so the data set is that provider's and the caller pays
created_for(r, ds, payer) ==
    ds # Absent => (ds.provider_id = r.provider /\ payer = "0xClient")

\* the except clause of create: the exceptions it handles
\* (AsyncStorageContext.create has no except clause)
handled_any_conflict(im, o) ==
    im = "sync" /\ o.kind \in {"already_exists", "idempotency_conflict"}
handled(im, o) == im = "sync" /\ o.kind = "already_exists"

\* the error a report raises when create does not handle it
error_of(o) ==
    IF o.kind = "already_exists" THEN "AlreadyExistsError"
    ELSE IF o.kind = "idempotency_conflict" THEN "IdempotencyError"
    ELSE IF o.kind = "unconfirmed" THEN "TimeoutError"
    ELSE "OtherError"

\* warm_storage.get_data_set(id) answered ds, or raising when ds is Absent:
\* after a successful creation the exception propagates
bind_created_keeps_sentinel(r, o, ds) ==
    IF ds = Absent THEN Context(r, r.data_set_id, r.client_data_set_id)
    ELSE Context(r, o.data_set_id, ds.client_data_set_id)
bind_created(r, o, ds) ==
    IF ds = Absent THEN CreateRaise("ValueError")
    ELSE Context(r, o.data_set_id, ds.client_data_set_id)

\* the branch for an existing resource id: int() and get_data_set, any
\* failure raising the handled error again
bind_by_id(r, o, ds) ==
    IF o.existing_resource_id \notin DataSetIds \/ ds = Absent
    THEN CreateRaise(error_of(o))
    ELSE Context(r, o.existing_resource_id, ds.client_data_set_id)

\* the branch without a resource id: the search of the caller's data sets
search_request(r, chain, reads) ==
    [provider_id |-> r.provider, requested_metadata |-> r.requested_metadata,
     datasets |-> chain, reads |-> reads]

research(r, o, chain, reads) ==
    LET q == search_request(r, chain, reads)
        found == find_existing(q, get_client_data_sets(q))
    IN  IF reads = "list_fails" \/ found <= 0 THEN CreateRaise(error_of(o))
        ELSE Context(r, found, chain[found].client_data_set_id)

CreateStates ==
    [impl : {"sync", "async"},
     inv : {1}, pc : {"resolved"}, r : Resolutions, next : {0}, sent : {<<>>},
     requests : {0}, report : {NoResult}, seen : {NotRead}, reads : {"ok"},
     lookup : {NotRead}, payer : {NoAddress}, result : {NoResult}]

\* resolution found an existing data set: create returns a context for it
CreateReturnExisting ==
    /\ cs.pc = "resolved" /\ cs.r.data_set_id # -1
    /\ cs' = [cs EXCEPT !.pc = "done",
                        !.result = Context(cs.r, cs.r.data_set_id, cs.r.client_data_set_id)]
    /\ UNCHANGED <<retrVars, mm, rq, rres, pf>>

\* a data set is needed: create counts the caller's data sets, signs, makes
\* the idempotency key and posts the create-dataset request
CreateRequest ==
    /\ cs.pc = "resolved" /\ cs.r.data_set_id = -1 /\ cs.impl = "sync"
    /\ \E listing \in Listings :
          cs' = [cs EXCEPT !.pc = "sent",
                           !.next = next_client_id(listing),
                           !.sent = Append(@, create_key(cs.r, next_client_id(listing))),
                           !.requests = @ + 1]
    /\ UNCHANGED <<retrVars, mm, rq, rres, pf>>

\* the same in AsyncStorageContext.create: the provider's approval is
\* checked first, the client data set id is random, no key is sent
AsyncCreateRequest ==
    /\ cs.pc = "resolved" /\ cs.r.data_set_id = -1 /\ cs.impl = "async"
    /\ \E approval \in {"approved", "not_approved", "error"}, n \in RandClientIds :
          IF approval_error([approval |-> approval]) # "none"
          THEN cs' = [cs EXCEPT !.pc = "done", !.result = CreateRaise("ValueError")]
          ELSE cs' = [cs EXCEPT !.pc = "sent", !.next = n, !.requests = @ + 1]
    /\ UNCHANGED <<retrVars, mm, rq, rres, pf>>

\* the PDP server's report arrives and create runs to its end
CreateReport ==
    /\ cs.pc = "sent"
    /\ \E o \in CreateOutcomes :
          \/ /\ handled(cs.impl, o) /\ o.existing_resource_id # NoResourceId
             /\ \E ds \in DataSets \cup {Absent}, payer \in Payers :
                   cs' = [cs EXCEPT !.pc = "done", !.report = o, !.lookup = ds,
                                    !.payer = payer,
                                    !.result = bind_by_id(cs.r, o, ds)]
          \/ /\ handled(cs.impl, o) /\ o.existing_resource_id = NoResourceId
             /\ \E chain \in [DataSetIds -> DataSets \cup {Absent}],
                   reads \in {"ok", "list_fails", "metadata_fails"} :
                   \* get_client_data_sets lists the caller's data sets
                   cs' = [cs EXCEPT !.pc = "done", !.report = o,
                                    !.seen = chain, !.reads = reads,
                                    !.payer = "0xClient",
                                    !.result = research(cs.r, o, chain, reads)]
          \/ /\ ~handled(cs.impl, o) /\ o.kind = "created"
             /\ \E ds \in DataSets \cup {Absent}, payer \in Payers :
                   /\ created_for(cs.r, ds, payer)
                   /\ cs' = [cs EXCEPT !.pc = "done", !.report = o, !.lookup = ds,
                                       !.payer = payer,
                                       !.result = bind_created(cs.r, o, ds)]
          \/ /\ ~handled(cs.impl, o) /\ o.kind # "created"
             /\ cs' = [cs EXCEPT !.pc = "done", !.report = o,
                                 !.result = CreateRaise(error_of(o))]
    /\ UNCHANGED <<retrVars, mm, rq, rres, pf>>

\* the caller invokes create again for the same address, provider and
\* metadata; resolution may now come out differently
CreateAgain ==
    /\ cs.pc = "done" /\ cs.inv < MaxCalls
    /\ \E r \in Resolutions :
          /\ r.provider = cs.r.provider
          /\ r.requested_metadata = cs.r.requested_metadata
          /\ cs' = [impl |-> cs.impl, inv |-> cs.inv + 1, pc |-> "resolved", r |-> r, next |-> 0,
                    sent |-> cs.sent, requests |-> 0, report |-> NoResult,
                    seen |-> NotRead, reads |-> "ok", lookup |-> NotRead,
                    payer |-> NoAddress, result |-> NoResult]
    /\ UNCHANGED <<retrVars, mm, rq, rres, pf>>

CreateNext ==
    \/ CreateReturnExisting \/ CreateRequest \/ AsyncCreateRequest
    \/ CreateReport \/ CreateAgain

InitCreate ==
    /\ RetrOff /\ MetaOff /\ rq = NoCall /\ rres = NoCall /\ pf = NoCall
    /\ cs \in CreateStates

SpecCreate == InitCreate /\ [][CreateNext]_vars

(* ------------------ properties of StorageContext.create --------------- *)

CreateDone == cs.pc = "done"

\* the listed data sets the re-search may bind: on the resolved provider,
\* not ended, with exactly the requested metadata
Reusable ==
    {d \in DataSetIds :
        /\ cs.seen[d] # Absent
        /\ cs.seen[d].provider_id = cs.r.provider
        /\ cs.seen[d].pdp_end_epoch = 0
        /\ cs.seen[d].metadata = cs.r.requested_metadata}

ById == cs.report.existing_resource_id # NoResourceId
IdResolves == cs.report.existing_resource_id \in DataSetIds /\ cs.lookup # Absent

C19_SameKeyEveryTime ==
    \A i, j \in 1..Len(cs.sent) : cs.sent[i] = cs.sent[j]

C19_Witness ==
    /\ Len(cs.sent) = 2
    /\ cs.sent[1] # cs.sent[2]

(* ------- further properties of _resolve_by_provider_id (SpecProv) ----- *)

\* the caller's data sets that qualify for reuse: on the requested
\* provider, not ended, with exactly the requested metadata
ReusableOnProvider ==
    {d \in DataSetIds :
        /\ rq.datasets[d] # Absent
        /\ rq.datasets[d].provider_id = rq.provider_id
        /\ rq.datasets[d].pdp_end_epoch = 0
        /\ rq.datasets[d].metadata = rq.requested_metadata}

\* C29: without forced creation, a result with is_existing = true names a
\* data set of the caller on the requested provider with pdp_end_epoch = 0
\* and exactly the requested metadata; every other result is the create
\* sentinel (data_set_id = -1, is_existing = false) for that provider.
C29_ExistingOrSentinel ==
    (Resolved /\ ~rq.force_create /\ rres.kind = "selection") =>
        /\ rres.provider = rq.provider_id
        /\ IF rres.is_existing
           THEN /\ rres.data_set_id \in ReusableOnProvider
                /\ rres.metadata = rq.requested_metadata
                /\ rres.client_data_set_id = rq.datasets[rres.data_set_id].client_data_set_id
           ELSE rres.data_set_id = -1 /\ rres.client_data_set_id = 0

C29_Witness ==
    /\ Resolved /\ ~rq.force_create
    /\ rq.datasets[101] # Absent /\ rq.datasets[101].provider_id = rq.provider_id
    /\ rq.datasets[101].metadata # rq.requested_metadata
    /\ rq.datasets[101].pdp_end_epoch = 0
    /\ rq.datasets[102] # Absent /\ 102 \in ReusableOnProvider
    /\ rres.kind = "selection" /\ rres.is_existing /\ rres.data_set_id = 102

\* C30: without forced creation the create sentinel is returned only when
\* the caller has no data set on the provider with pdp_end_epoch = 0 and
\* exactly the requested metadata; a failed listing or metadata read does
\* not become a request to create.
C30_ReusePreferred ==
    (Resolved /\ ~rq.force_create /\ rres.kind = "selection" /\ rres.data_set_id = -1) =>
        ReusableOnProvider = {}

C30_Witness ==
    /\ Resolved /\ ~rq.force_create
    /\ rq.reads = "metadata_fails"
    /\ ReusableOnProvider # {}
    /\ rres.kind = "selection" /\ rres.data_set_id = -1

bound_record ==
    IF cs.lookup # NotRead THEN cs.lookup ELSE cs.seen[cs.result.data_set_id]

Callbacks == {"none", "returns", "raises"}

\* one upload call: the size of the data against the limits, the callbacks
UploadStates ==
    [impl : {"sync", "async"}, pc : {"start"},
     size : {"below_min", "ok", "above_max"},
     on_upload_complete : Callbacks, on_pieces_added : Callbacks,
     add_requests : {0}, report : {NoResult}, result : {NoResult}]

\* what the PDP server reports for the add-pieces request
AddOutcomes ==
    [kind : {"added"}, tx_hash : {"0xabc"}]
    \cup [kind : {"already_exists", "idempotency_conflict", "other_error"},
          tx_hash : {"None"}]

UploadResult(tx_hash) == [kind |-> "result", piece_cid |-> "cidA", tx_hash |-> tx_hash]

\* the except clause around add_pieces; AsyncStorageContext.upload has none
add_handled(im, o) == im = "sync" /\ o.kind = "already_exists"

\* what upload returns or raises once add_pieces has answered
upload_result(im, o) ==
    IF o.kind = "added" THEN UploadResult(o.tx_hash)
    ELSE IF add_handled(im, o) THEN UploadResult("None")
    ELSE CreateRaise(error_of(o))

\* size validation, the async preflight, upload_piece and wait_for_piece
UploadPiece ==
    /\ cs.pc = "start"
    /\ \E stored \in {"ok", "preflight_fails", "upload_fails", "wait_times_out"} :
          /\ stored = "preflight_fails" => cs.impl = "async"
          /\ IF cs.size # "ok"
             THEN cs' = [cs EXCEPT !.pc = "done", !.result = CreateRaise("ValueError")]
             ELSE IF stored = "preflight_fails"
             THEN cs' = [cs EXCEPT !.pc = "done", !.result = CreateRaise("ValueError")]
             ELSE IF stored = "upload_fails"
             THEN cs' = [cs EXCEPT !.pc = "done", !.result = CreateRaise("OtherError")]
             ELSE IF stored = "wait_times_out"
             THEN cs' = [cs EXCEPT !.pc = "done", !.result = CreateRaise("TimeoutError")]
             ELSE cs' = [cs EXCEPT !.pc = "uploaded"]
    /\ UNCHANGED <<retrVars, mm, rq, rres, pf>>

\* the add-pieces request, its report, the callback and the return
UploadAddPieces ==
    /\ cs.pc = "uploaded"
    /\ \E o \in AddOutcomes :
          cs' = [cs EXCEPT !.pc = "done", !.add_requests = @ + 1, !.report = o,
                           !.result = upload_result(cs.impl, o)]
    /\ UNCHANGED <<retrVars, mm, rq, rres, pf>>

UploadNext == UploadPiece \/ UploadAddPieces

InitUpload ==
    /\ RetrOff /\ MetaOff /\ rq = NoCall /\ rres = NoCall /\ pf = NoCall
    /\ cs \in UploadStates

SpecUpload == InitUpload /\ [][UploadNext]_vars

(* ------------------------- properties of upload ----------------------- *)

\* C21: when add_pieces reports 'already exists', upload returns the piece
\* CID with tx_hash = None instead of raising, in both implementations.
C21_AlreadyAddedSucceeds ==
    (cs.pc = "done" /\ cs.report.kind = "already_exists") =>
        cs.result = UploadResult("None")

C21_Witness ==
    /\ cs.pc = "done" /\ cs.impl = "async"
    /\ cs.report.kind = "already_exists"
    /\ cs.result = CreateRaise("AlreadyExistsError")

(* ====================================================================== *)
(* ChainRetriever._find_providers and AsyncChainRetriever._find_providers *)
(* ====================================================================== *)

\* a data set as get_client_data_sets_with_details reports it
DetailedDataSets ==
    [provider_id : ProviderIds, is_live : BOOLEAN, active_piece_count : {0, 2}]

\* a call, with the registry (how get_provider answers for each id) and
\* the caller's data sets; provider p is registered under address p
FindRequests ==
    [impl : {"sync", "async"},
     provider_address : {NotGiven} \cup ProviderIds,
     reg : [ProviderIds -> {"absent", "active", "inactive", "raises"}],
     datasets : [DataSetIds -> DetailedDataSets \cup {Absent}]]

\* the filter for live data sets with pieces
valid_dataset_any_count(ds) == ds # Absent /\ ds.is_live
valid_dataset(ds) == ds # Absent /\ ds.is_live /\ ds.active_piece_count > 0

\* set(ds.provider_id for ds in valid_datasets)
unique_provider_ids(q) ==
    {q.datasets[d].provider_id : d \in {e \in DataSetIds : valid_dataset(q.datasets[e])}}

\* list(set(...)): the ids once each, in an order the language leaves open
Orderings(S) ==
    {o \in [1..Cardinality(S) -> S] : \A i, j \in 1..Cardinality(S) : o[i] = o[j] => i = j}

\* get_provider(pid) answered with an active provider; anything else,
\* an exception included, drops the id
provider_if_active(q, pid) == q.reg[pid] = "active"

RECURSIVE keep_active(_, _)
keep_active(q, ids) ==
    IF ids = <<>> THEN <<>>
    ELSE IF provider_if_active(q, Head(ids))
         THEN <<Head(ids)>> \o keep_active(q, Tail(ids))
         ELSE keep_active(q, Tail(ids))

FindError(reason) == [kind |-> "error", reason |-> reason]
Providers(list) == [kind |-> "providers", list |-> list]

find_providers(q, order) ==
    IF q.provider_address # NotGiven
    THEN IF q.reg[q.provider_address] = "raises" THEN FindError("registry_error")
         ELSE IF q.reg[q.provider_address] = "absent" THEN FindError("provider_not_found")
         ELSE Providers(<<q.provider_address>>)
    ELSE IF unique_provider_ids(q) = {} THEN FindError("no_active_datasets")
    ELSE IF keep_active(q, order) = <<>> THEN FindError("no_valid_providers")
    ELSE Providers(keep_active(q, order))

\* one call of _find_providers
FindProvidersCall ==
    /\ rres = NoCall
    /\ \E order \in Orderings(unique_provider_ids(rq)) :
          rres' = find_providers(rq, order)
    /\ UNCHANGED <<retrVars, mm, rq, cs, pf>>

InitFind ==
    /\ RetrOff /\ MetaOff /\ cs = NoCall /\ pf = NoCall
    /\ rq \in FindRequests /\ rres = NoCall

SpecFind == InitFind /\ [][FindProvidersCall]_vars

(* -------------------- properties of _find_providers ------------------- *)

\* the active providers owning a live data set of the caller with pieces
Serving ==
    {p \in ProviderIds :
        /\ rq.reg[p] = "active"
        /\ \E d \in DataSetIds :
              /\ rq.datasets[d] # Absent
              /\ rq.datasets[d].provider_id = p
              /\ rq.datasets[d].is_live
              /\ rq.datasets[d].active_piece_count > 0}

\* C28: with an explicit provider address the candidates are exactly the
\* provider registered under it; otherwise they are exactly the active
\* providers owning a live data set of the caller with pieces, each once,
\* and a provider whose lookup raises is dropped without failing the
\* discovery while another provider resolves.
C28_Candidates ==
    Resolved =>
        IF rq.provider_address # NotGiven
        THEN /\ rq.reg[rq.provider_address] \in {"active", "inactive"} =>
                   rres = Providers(<<rq.provider_address>>)
             /\ rq.reg[rq.provider_address] = "absent" => rres.kind = "error"
        ELSE /\ Serving # {} =>
                   /\ rres.kind = "providers"
                   /\ {rres.list[i] : i \in 1..Len(rres.list)} = Serving
                   /\ Len(rres.list) = Cardinality(Serving)
             /\ Serving = {} => rres.kind = "error"

C28_Witness ==
    /\ Resolved /\ rq.provider_address = NotGiven
    /\ rq.reg[1] = "raises" /\ rq.reg[2] = "active"
    /\ valid_dataset(rq.datasets[101]) /\ rq.datasets[101].provider_id = 1
    /\ valid_dataset(rq.datasets[102]) /\ rq.datasets[102].provider_id = 2
    /\ rres = Providers(<<2>>)

(* ====================================================================== *)
(* AsyncChainRetriever.fetch_pieces: one task per piece CID, gathered     *)
(* ====================================================================== *)

MaxPieces == 3
RequestedCids == {"cidA", "cidB", "cidC"}

\* what a successful fetch_piece(cid) returns
PieceBytes(cid) == [bytes_of |-> cid]
TaskPending == [bytes_of |-> "pending"]
TaskFailed == [bytes_of |-> "ValueError"]

PieceLists == UNION {[1..n -> RequestedCids] : n \in 0..MaxPieces}

\* tasks[i] is the state of fetch_piece(piece_cids[i]); order lists the
\* task indices as they complete
GatherStates(cids) ==
    [kind |-> "gather", piece_cids |-> cids,
     tasks |-> [i \in 1..Len(cids) |-> TaskPending],
     order |-> <<>>, ret |-> NoResult]

\* asyncio.gather: the results in the order of the awaitables passed in
gather_completion_order(g) == [i \in 1..Len(g.order) |-> g.tasks[g.order[i]]]
gather(g) == [i \in 1..Len(g.piece_cids) |-> g.tasks[i]]

\* one fetch_piece task ends, with the bytes of its piece or with an error
FetchComplete ==
    /\ cs.kind = "gather"
    /\ \E i \in 1..Len(cs.piece_cids), ok \in BOOLEAN :
          /\ cs.tasks[i] = TaskPending
          /\ cs' = [cs EXCEPT !.tasks[i] = IF ok THEN PieceBytes(cs.piece_cids[i]) ELSE TaskFailed,
                              !.order = Append(@, i)]
    /\ UNCHANGED <<retrVars, mm, rq, rres, pf>>

\* every task has a result: fetch_pieces returns list(await gather(...))
GatherReturn ==
    /\ cs.kind = "gather" /\ cs.ret = NoResult
    /\ \A i \in 1..Len(cs.piece_cids) : cs.tasks[i] \notin {TaskPending, TaskFailed}
    /\ cs' = [cs EXCEPT !.ret = [kind |-> "list", list |-> gather(cs)]]
    /\ UNCHANGED <<retrVars, mm, rq, rres, pf>>

\* a task raised: gather hands the exception to the caller
GatherRaise ==
    /\ cs.kind = "gather" /\ cs.ret = NoResult
    /\ \E i \in 1..Len(cs.piece_cids) : cs.tasks[i] = TaskFailed
    /\ cs' = [cs EXCEPT !.ret = [kind |-> "raise", list |-> <<>>]]
    /\ UNCHANGED <<retrVars, mm, rq, rres, pf>>

GatherNext == FetchComplete \/ GatherReturn \/ GatherRaise

InitGather ==
    /\ RetrOff /\ MetaOff /\ rq = NoCall /\ rres = NoCall /\ pf = NoCall
    /\ \E cids \in PieceLists : cs = GatherStates(cids)

SpecGather == InitGather /\ [][GatherNext]_vars

(* --------------------- properties of fetch_pieces --------------------- *)

\* C23: the list fetch_pieces returns has the length of the input and
\* holds at position i the bytes of input identifier i, whatever the order
\* in which the fetches completed.
C23_ResultsInInputOrder ==
    cs.ret.kind = "list" =>
        /\ Len(cs.ret.list) = Len(cs.piece_cids)
        /\ \A i \in 1..Len(cs.piece_cids) : cs.ret.list[i] = PieceBytes(cs.piece_cids[i])

C23_Witness ==
    /\ cs.ret.kind = "list"
    /\ Len(cs.piece_cids) >= 2
    /\ cs.piece_cids[1] # cs.piece_cids[2]
    /\ cs.order[1] # 1

(* ====================================================================== *)
(* core/piece.py: piece CID coding. Bytes are integers in 0..255, strings *)
(* are sequences of one-character strings.                                *)
(* ====================================================================== *)

RAW_CODEC == 85
FIL_COMMITMENT_UNSEALED == 61697
SHA2_256_TRUNC254_PADDED == 4114
FR32_SHA2_256_TRUNC254_PADBINTREE == 4113
NODE_SIZE == 32

PieceError(error) == [kind |-> "error", error |-> error, str |-> <<>>, bytes |-> <<>>]
PieceString(str) == [kind |-> "string", error |-> "none", str |-> str, bytes |-> <<>>]
PieceBytesResult(bytes) == [kind |-> "bytes", error |-> "none", str |-> <<>>, bytes |-> bytes]

\* bytearray.append accepts only values in range(0, 256)
byte_in_range(value) == value \in 0..255

\* unsigned LEB128; a negative value reaches result.append(value) at once
\* and is refused there (see varint_raises)
RECURSIVE _encode_varint(_)
_encode_varint(value) ==
    IF value >= 128
    THEN <<(value % 128) + 128>> \o _encode_varint(value \div 128)
    ELSE <<value>>

varint_raises(value) == value < 128 /\ ~byte_in_range(value)

\* the RFC 4648 alphabet, in lower case as the CID strings carry it
Base32Lower ==
    <<"a", "b", "c", "d", "e", "f", "g", "h", "i", "j", "k", "l", "m", "n", "o", "p",
      "q", "r", "s", "t", "u", "v", "w", "x", "y", "z", "2", "3", "4", "5", "6", "7">>

\* bit k (from 1, most significant first) of total bits held as a
\* sequence of w-bit values; past the end the bits are zero
BitAt(values, total, w, k) ==
    IF k > total THEN 0
    ELSE (values[((k - 1) \div w) + 1] \div (2 ^ (w - 1 - ((k - 1) % w)))) % 2

\* the value of the n bits from bit k on
Group(values, total, w, k, n) ==
    LET RECURSIVE acc(_)
        acc(t) == IF t = 0 THEN 0
                  ELSE 2 * acc(t - 1) + BitAt(values, total, w, k + t - 1)
    IN acc(n)

\* 'b' + b32encode(data).lower().rstrip('='): five bits a character, the
\* last character filled with zero bits
_encode_multibase_base32(data) ==
    <<"b">> \o [j \in 1..((8 * Len(data) + 4) \div 5) |->
                   Base32Lower[Group(data, 8 * Len(data), 8, 5 * (j - 1) + 1, 5) + 1]]

\* int(math.log2(num_leaves))
RECURSIVE floor_log2(_)
floor_log2(n) == IF n < 2 THEN 0 ELSE 1 + floor_log2(n \div 2)

tree_height_is_leaf_count(num_leaves) == num_leaves
tree_height_of(num_leaves) == IF num_leaves > 0 THEN floor_log2(num_leaves) ELSE 0

_create_pieceCIDv2(root_hash, payload_size, padded_piece_size) ==
    LET num_leaves == padded_piece_size \div NODE_SIZE
        tree_height == tree_height_of(num_leaves)
        unpadded_piece_size == (padded_piece_size * 127) \div 128
        padding == unpadded_piece_size - payload_size
        digest == _encode_varint(padding) \o <<tree_height>> \o root_hash
        multihash == _encode_varint(FR32_SHA2_256_TRUNC254_PADBINTREE)
                        \o _encode_varint(Len(digest)) \o digest
        cid == <<1>> \o _encode_varint(RAW_CODEC) \o multihash
    IN  IF varint_raises(padding) \/ ~byte_in_range(tree_height)
        THEN PieceError("ValueError")
        ELSE PieceString(_encode_multibase_base32(cid))

\* str.upper() meets the alphabet of base64.b32decode
Base32Upper ==
    <<"A", "B", "C", "D", "E", "F", "G", "H", "I", "J", "K", "L", "M", "N", "O", "P",
      "Q", "R", "S", "T", "U", "V", "W", "X", "Y", "Z", "2", "3", "4", "5", "6", "7">>

\* the five-bit value of a character after upper(), -1 for a character
\* outside the alphabet
b32rev(c) ==
    IF \E v \in 1..32 : Base32Lower[v] = c \/ Base32Upper[v] = c
    THEN (CHOOSE v \in 1..32 : Base32Lower[v] = c \/ Base32Upper[v] = c) - 1
    ELSE -1

startswith(str, prefix) ==
    Len(str) >= Len(prefix) /\ SubSeq(str, 1, Len(prefix)) = prefix

\* base64.b32decode of the upper-cased, '='-padded string: only 0, 1, 3, 4
\* or 6 padding characters are accepted, and whole bytes are kept
_decode_multibase_base32(cid_str) ==
    IF ~(startswith(cid_str, <<"b", "a", "g", "a">>) \/ startswith(cid_str, <<"b", "a", "f", "k">>))
    THEN PieceError("ValueError")
    ELSE LET raw == Tail(cid_str)
             padding == (8 - (Len(raw) % 8)) % 8
             values == [j \in 1..Len(raw) |-> b32rev(raw[j])]
         IN  IF (\E j \in 1..Len(raw) : values[j] < 0) \/ padding \notin {0, 1, 3, 4, 6}
             THEN PieceError("binascii.Error")
             ELSE PieceBytesResult([i \in 1..((5 * Len(raw)) \div 8) |->
                                       Group(values, 5 * Len(raw), 5, 8 * (i - 1) + 1, 8)])

\* while cid_bytes[idx] & 0x80: idx += 1; idx += 1 (idx counts from 0);
\* -1 when the index runs off the bytes
RECURSIVE skip_varint(_, _)
skip_varint(cid_bytes, idx) ==
    IF idx < 0 \/ idx >= Len(cid_bytes) THEN -1
    ELSE IF cid_bytes[idx + 1] >= 128 THEN skip_varint(cid_bytes, idx + 1)
    ELSE idx + 1

\* the index after version, codec, multihash code and multihash length
digest_start_at_length(cid_bytes) == skip_varint(cid_bytes, skip_varint(cid_bytes, 1))
digest_start(cid_bytes) ==
    IF skip_varint(cid_bytes, skip_varint(cid_bytes, 1)) < 0 THEN -1
    ELSE skip_varint(cid_bytes, skip_varint(cid_bytes, 1)) + 1

\* cid_bytes[idx:idx + 32]: a slice never raises, it ends with the bytes
Slice(bytes, from, to) ==
    IF from >= Len(bytes) THEN <<>>
    ELSE SubSeq(bytes, from + 1, IF to < Len(bytes) THEN to ELSE Len(bytes))

_extract_root_hash_from_pieceCIDv1(piece_cid_v1) ==
    LET decoded == _decode_multibase_base32(piece_cid_v1)
        idx == digest_start(decoded.bytes)
    IN  IF decoded.kind = "error" THEN decoded
        ELSE IF idx < 0 THEN PieceError("IndexError")
        ELSE PieceBytesResult(Slice(decoded.bytes, idx, idx + 32))

convert_to_pieceCIDv2(piece_cid_v1, payload_size, padded_piece_size) ==
    LET root_hash == _extract_root_hash_from_pieceCIDv1(piece_cid_v1)
    IN  IF root_hash.kind = "error" THEN root_hash
        ELSE _create_pieceCIDv2(root_hash.bytes, payload_size, padded_piece_size)

(* ------------------------------ inputs -------------------------------- *)

RootHashes ==
    {[i \in 1..32 |-> (i * mc[1] + mc[2]) % 256] :
        mc \in {<<0, 0>>, <<0, 255>>, <<1, 255>>, <<7, 13>>, <<37, 128>>}}
PayloadSizes == {0, 1, 127, 200}
PaddedSizes == {0, 16, 32, 96, 128, 256}

\* a v1 piece CID wrapping a root hash, as stream-commp prints it
PieceCIDv1(root_hash) ==
    _encode_multibase_base32(
        <<1>> \o _encode_varint(FIL_COMMITMENT_UNSEALED)
              \o _encode_varint(SHA2_256_TRUNC254_PADDED)
              \o _encode_varint(Len(root_hash)) \o root_hash)

\* what can happen to the string on its way: a wrong multibase prefix, a
\* character outside the alphabet, an upper-case character
Damages == {"none", "prefix", "digit", "upper"}
Damaged(str, damage) ==
    IF damage = "prefix" /\ Len(str) >= 1 THEN [str EXCEPT ![1] = "z"]
    ELSE IF damage = "digit" /\ Len(str) >= 11 THEN [str EXCEPT ![11] = "1"]
    ELSE IF damage = "upper" /\ Len(str) >= 11 THEN [str EXCEPT ![11] = "A"]
    ELSE str

PieceCall(op, root_hash, payload_size, padded_piece_size, cut, damage, result) ==
    [kind |-> "piece", op |-> op, root_hash |-> root_hash,
     payload_size |-> payload_size, padded_piece_size |-> padded_piece_size,
     cut |-> cut, damage |-> damage, result |-> result]

CreatePieceCIDv2 ==
    /\ pf = NoCall
    /\ \E h \in RootHashes, payload \in PayloadSizes, padded \in PaddedSizes :
          pf' = PieceCall("create", h, payload, padded, Len(PieceCIDv1(h)), "none",
                          _create_pieceCIDv2(h, payload, padded))
    /\ UNCHANGED <<retrVars, mm, rq, rres, cs>>

ConvertToPieceCIDv2 ==
    /\ pf = NoCall
    /\ \E h \in RootHashes, payload \in PayloadSizes, padded \in PaddedSizes :
          pf' = PieceCall("convert", h, payload, padded, Len(PieceCIDv1(h)), "none",
                          convert_to_pieceCIDv2(PieceCIDv1(h), payload, padded))
    /\ UNCHANGED <<retrVars, mm, rq, rres, cs>>

\* the decoder on a v1 CID, on each of its prefixes and on damaged copies
ExtractRootHash ==
    /\ pf = NoCall
    /\ \E h \in RootHashes, damage \in Damages :
       \E cut \in 0..Len(PieceCIDv1(h)) :
          pf' = PieceCall("extract", h, 0, 0, cut, damage,
                          _extract_root_hash_from_pieceCIDv1(
                              Damaged(SubSeq(PieceCIDv1(h), 1, cut), damage)))
    /\ UNCHANGED <<retrVars, mm, rq, rres, cs>>

PieceNext == CreatePieceCIDv2 \/ ConvertToPieceCIDv2 \/ ExtractRootHash

InitPiece == RetrOff /\ MetaOff /\ ResOff

SpecPiece == InitPiece /\ [][PieceNext]_vars

(* ----------------------- properties of the coding --------------------- *)

Encoded == pf.kind = "piece" /\ pf.op \in {"create", "convert"}
Extracted == pf.kind = "piece" /\ pf.op = "extract"
Leaves == pf.padded_piece_size \div NODE_SIZE
PowerOfTwo(n) == \E e \in 0..30 : n = 2 ^ e

\* C24: the v2 encoder fails and produces no identifier whenever
\* floor(paddedSize * 127 / 128) < payloadSize or paddedSize / 32 is zero
\* or not a power of two.
C24_BadSizesRefused ==
    (/\ Encoded
     /\ \/ (pf.padded_piece_size * 127) \div 128 < pf.payload_size
        \/ ~PowerOfTwo(Leaves)) => pf.result.kind = "error"

\* the leaf count three is encoded with tree height one
C24_Witness ==
    /\ Encoded /\ Leaves = 3 /\ pf.payload_size = 0
    /\ pf.result.kind = "string"

\* C25: extracting the root hash from a v1 piece CID that wraps a 32-byte
\* root hash returns exactly that root hash.
C25_RoundTrip ==
    (Extracted /\ pf.cut = Len(PieceCIDv1(pf.root_hash)) /\ pf.damage = "none") =>
        pf.result = PieceBytesResult(pf.root_hash)

C25_Witness ==
    /\ Extracted /\ pf.cut = 64 /\ pf.damage = "none"
    /\ pf.root_hash[1] # pf.root_hash[2]
    /\ pf.result.bytes = pf.root_hash

\* C26: the decoder either returns exactly the 32 bytes of the digest or
\* fails; a malformed prefix, a truncated varint or a truncated digest
\* ends in an error, never in a shorter or shifted hash.
C26_DigestOrError ==
    Extracted => pf.result.kind = "error" \/ pf.result.bytes = pf.root_hash

\* a CID cut inside its digest decodes to the 27 bytes that are left
C26_Witness ==
    /\ Extracted /\ pf.cut = 56 /\ pf.damage = "none"
    /\ pf.result.kind = "bytes" /\ Len(pf.result.bytes) = 27

(* ====================================================================== *)
(* StorageManager.upload and AsyncStorageManager.upload: the allowance    *)
(* preflight before the context's upload                                  *)
(* ====================================================================== *)

\* TIB = 1024 ** 4 bytes, counted in MiB: data sizes are whole MiB here
MIB_PER_TIB == 1048576
EPOCHS_PER_DAY == 2880

\* what payments_service.service_approval answers, or that it raises
Approvals ==
    [kind : {"approval"}, is_approved : BOOLEAN,
     rate_allowance : {0, 1, 5}, lockup_allowance : {0, 28800, 144000}]
        \cup {[kind |-> "raises", is_approved |-> FALSE,
               rate_allowance |-> 0, lockup_allowance |-> 0]}

\* get_current_pricing_rates: no warm storage, an exception, or the rates
PricingRates ==
    [kind : {"rates"}, price_no_cdn : {2000000}, price_cdn : {4000000},
     epochs_per_month : {0, 1}]
        \cup {[kind |-> k, price_no_cdn |-> 0, price_cdn |-> 0, epochs_per_month |-> 0] :
                k \in {"no_warm_storage", "raises"}}

\* how upload comes to a context: the one passed in, a cached one, a new
\* one, or none for lack of arguments
Routes == {"context", "cached", "created", "missing_args"}

ManagerCalls ==
    [kind : {"manager_upload"}, impl : {"sync", "async"},
     payments_service : BOOLEAN, has_chain : BOOLEAN,
     approval : Approvals, pricing : PricingRates, with_cdn : BOOLEAN,
     size_mib : {0, 1, 3}, route : Routes,
     pc : {"start"}, context_uploads : {0}, result : {NoResult}]

\* result["estimated_cost"]["per_epoch"]
cost_per_epoch(q) ==
    IF q.pricing.kind # "rates" THEN 0
    ELSE LET price_per_tib_month ==
                 IF q.with_cdn THEN q.pricing.price_cdn ELSE q.pricing.price_no_cdn
             cost_per_month == (price_per_tib_month * q.size_mib) \div MIB_PER_TIB
         IN  IF q.pricing.epochs_per_month # 0
             THEN cost_per_month \div q.pricing.epochs_per_month
             ELSE 0

rate_needed(q) == cost_per_epoch(q)
lockup_needed(q) == rate_needed(q) * (EPOCHS_PER_DAY * 10)

\* whether service_approval is asked and answers
allowance_checked(q) == q.payments_service /\ q.has_chain /\ q.approval.kind = "approval"

\* preflight_upload(...)["allowance_check"]; without a check the entry
\* keeps sufficient = True and has no is_approved key, read as True
allowance_check(q) ==
    IF ~allowance_checked(q) THEN [sufficient |-> TRUE, is_approved |-> TRUE]
    ELSE [sufficient |-> /\ q.approval.rate_allowance >= rate_needed(q)
                         /\ q.approval.lockup_allowance >= lockup_needed(q)
                         /\ q.approval.is_approved,
          is_approved |-> q.approval.is_approved]

\* _preflight_upload_requirements raises
preflight_raises(q) ==
    /\ q.payments_service
    /\ ~allowance_check(q).is_approved \/ ~allowance_check(q).sufficient

\* the start of upload: StorageManager.upload has no payments_service
\* parameter, so passing one is a TypeError; AsyncStorageManager.upload
\* runs the preflight; then the route to a context is taken
ManagerPreflight ==
    /\ cs.kind = "manager_upload" /\ cs.pc = "start"
    /\ IF cs.impl = "sync" /\ cs.payments_service
       THEN cs' = [cs EXCEPT !.pc = "done", !.result = CreateRaise("TypeError")]
       ELSE IF cs.impl = "async" /\ preflight_raises(cs)
       THEN cs' = [cs EXCEPT !.pc = "done",
                             !.result = CreateRaise("ValueError: Insufficient allowances")]
       ELSE IF cs.route = "missing_args"
       THEN cs' = [cs EXCEPT !.pc = "done", !.result = CreateRaise("ValueError")]
       ELSE cs' = [cs EXCEPT !.pc = "context"]
    /\ UNCHANGED <<retrVars, mm, rq, rres, pf>>

\* return ctx.upload(data, metadata=metadata)
ManagerContextUpload ==
    /\ cs.kind = "manager_upload" /\ cs.pc = "context"
    /\ \E uploaded \in BOOLEAN :
          cs' = [cs EXCEPT !.pc = "done", !.context_uploads = @ + 1,
                           !.result = IF uploaded THEN [kind |-> "return", error |-> "none"]
                                      ELSE CreateRaise("OtherError")]
    /\ UNCHANGED <<retrVars, mm, rq, rres, pf>>

ManagerNext == ManagerPreflight \/ ManagerContextUpload

InitManager ==
    /\ RetrOff /\ MetaOff /\ rq = NoCall /\ rres = NoCall /\ pf = NoCall
    /\ cs \in ManagerCalls

SpecManager == InitManager /\ [][ManagerNext]_vars

(* ----------------- properties of the managers' upload ----------------- *)

\* the allowance check reports a missing approval or a short allowance
ReportsShort ==
    /\ cs.payments_service /\ cs.has_chain /\ cs.approval.kind = "approval"
    /\ \/ ~cs.approval.is_approved
       \/ cs.approval.rate_allowance < rate_needed(cs)
       \/ cs.approval.lockup_allowance < lockup_needed(cs)

\* C27: upload with a payments service never invokes the context's upload
\* when the allowance check reports a missing operator approval or a rate
\* or lockup allowance below the need: it raises an
\* insufficient-allowance error first, in both managers.
C27_BlockedBeforeUpload ==
    ReportsShort =>
        /\ cs.context_uploads = 0
        /\ cs.pc = "done" => cs.result = CreateRaise("ValueError: Insufficient allowances")

\* the synchronous manager refuses the payments_service argument itself
C27_Witness ==
    /\ ReportsShort /\ cs.impl = "sync" /\ cs.pc = "done"
    /\ cs.approval.is_approved /\ cs.approval.rate_allowance = 0
    /\ rate_needed(cs) = 1
    /\ cs.result = CreateRaise("TypeError")

(* ====================================================================== *)
(* StorageContext._smart_select_provider and its async twin (same code)   *)
(* ====================================================================== *)

SelProviders == {1, 2}

\* a data set as get_client_data_sets_with_details lists it; state folds
\* is_live, is_managed and pdp_end_epoch: "ok" is live, managed, not ended
SmartDataSets ==
    [provider_id : SelProviders, state : {"ok", "notLive", "notManaged", "ended"},
     metadata : {EmptyMeta, CdnMeta}, active_piece_count : {0, 2}]

\* what the registry and the endpoint give for a provider:
\*   inactive       get_provider answers None or an inactive provider
\*   lookup_raises  get_provider raises
\*   no_endpoint    active, but _get_pdp_endpoint raises ValueError
\*   ping_fails     active with an endpoint, _ping_provider answers False
\*   healthy        active, and the endpoint answers the probe
ProbeStates == {"healthy", "inactive", "lookup_raises", "no_endpoint", "ping_fails"}

\* one call: the chain and registry state, and the arguments
\* the listing is read only without force_create; a failing read of the
\* approved list is taken with both providers approved on the chain
SmartRequests ==
    {q \in [force_create : BOOLEAN, listing : {"ok", "fails"},
            datasets : [DataSetIds -> SmartDataSets],
            reg : [SelProviders -> ProbeStates],
            approved : SUBSET SelProviders, approved_read : {"ok", "fails"},
            requested_metadata : {CdnMeta},
            exclude_provider_ids : {{}, {1}}] :
        /\ q.force_create => q.listing = "ok"
        /\ q.approved_read = "fails" => q.approved = SelProviders}

\* the filter of the reuse phase
matching(q, d) ==
    /\ q.datasets[d].state = "ok"
    /\ q.datasets[d].provider_id \notin q.exclude_provider_ids
    /\ metadata_matches(q.datasets[d].metadata, q.requested_metadata)

\* matching.sort(key=lambda ds: (-ds.active_piece_count, ds.data_set_id))
sorts_before(q, a, b) ==
    \/ q.datasets[a].active_piece_count > q.datasets[b].active_piece_count
    \/ /\ q.datasets[a].active_piece_count = q.datasets[b].active_piece_count
       /\ a < b

sorted_matching(q) ==
    CHOOSE o \in Orderings({d \in DataSetIds : matching(q, d)}) :
        \A i, j \in DOMAIN o : i < j => sorts_before(q, o[i], o[j])

SmartResult(kind, provider_id, data_set_id, reuse_probes, new_probes) ==
    [kind |-> kind, provider_id |-> provider_id, data_set_id |-> data_set_id,
     reuse_probes |-> reuse_probes, new_probes |-> new_probes]

\* the loop over the matching data sets, inside one try: the first healthy
\* provider ends it with a result, an exception of get_provider or of
\* _get_pdp_endpoint leaves the loop for the except clause
RECURSIVE reuse_loop(_, _, _)
reuse_loop(q, ids, probed) ==
    IF ids = <<>> THEN SmartResult("none", 0, 0, probed, <<>>)
    ELSE LET state == q.reg[q.datasets[Head(ids)].provider_id]
             log == Append(probed, Head(ids))
         IN  IF state \in {"lookup_raises", "no_endpoint"}
             THEN SmartResult("none", 0, 0, log, <<>>)
             ELSE IF state = "healthy"
             THEN SmartResult("existing", q.datasets[Head(ids)].provider_id,
                              Head(ids), log, <<>>)
             ELSE reuse_loop(q, Tail(ids), log)

reuse_phase(q) ==
    IF q.force_create \/ q.listing = "fails" THEN SmartResult("none", 0, 0, <<>>, <<>>)
    ELSE reuse_loop(q, sorted_matching(q), <<>>)

\* approved_ids, [] when the read raises, without the excluded providers
candidate_ids_with_excluded(q) == IF q.approved_read = "fails" THEN {} ELSE q.approved
candidate_ids(q) ==
    IF q.approved_read = "fails" THEN {} ELSE q.approved \ q.exclude_provider_ids

\* the loop over the shuffled candidates, one try per candidate
RECURSIVE new_loop(_, _, _, _)
new_loop(q, ids, reuse_probes, probed) ==
    IF ids = <<>> THEN SmartResult("error", 0, 0, reuse_probes, probed)
    ELSE IF q.reg[Head(ids)] = "healthy"
    THEN SmartResult("new", Head(ids), -1, reuse_probes, Append(probed, Head(ids)))
    ELSE new_loop(q, Tail(ids), reuse_probes, Append(probed, Head(ids)))

\* shuffled is candidate_ids after random.shuffle
smart_select_provider(q, shuffled) ==
    IF reuse_phase(q).kind = "existing" THEN reuse_phase(q)
    ELSE new_loop(q, shuffled, reuse_phase(q).reuse_probes, <<>>)

SmartSelectProvider ==
    /\ rres = NoCall
    /\ \E shuffled \in Orderings(candidate_ids(rq)) :
          rres' = smart_select_provider(rq, shuffled)
    /\ UNCHANGED <<retrVars, mm, rq, cs, pf>>

InitSmart ==
    /\ RetrOff /\ MetaOff /\ cs = NoCall /\ pf = NoCall
    /\ rq \in SmartRequests /\ rres = NoCall

SpecSmart == InitSmart /\ [][SmartSelectProvider]_vars

(* ------------------ properties of the smart selection ----------------- *)

\* the reuse phase runs: no forced creation, and the listing was read
ReuseTried == Resolved /\ ~rq.force_create /\ rq.listing = "ok"

\* the caller's live, managed, non-terminated, non-excluded data sets with
\* exactly the requested metadata
ReuseCandidates ==
    {d \in DataSetIds :
        /\ rq.datasets[d].state = "ok"
        /\ rq.datasets[d].provider_id \notin rq.exclude_provider_ids
        /\ rq.datasets[d].metadata = rq.requested_metadata}

\* descending active_piece_count, then ascending data_set_id
Earlier(a, b) ==
    \/ rq.datasets[a].active_piece_count > rq.datasets[b].active_piece_count
    \/ /\ rq.datasets[a].active_piece_count = rq.datasets[b].active_piece_count
       /\ a < b

\* its provider is active and its endpoint answers the liveness probe
Qualifies(d) == rq.reg[rq.datasets[d].provider_id] = "healthy"

ReuseProbed == {rres.reuse_probes[i] : i \in DOMAIN rres.reuse_probes}

\* C31: the reuse candidates are probed by descending active_piece_count
\* and ascending data_set_id until one qualifies; the result is the first
\* in that order that qualifies, and a new provider is selected only after
\* all of them were tried.
C31_ReuseInOrder ==
    ReuseTried =>
        /\ ReuseProbed \subseteq ReuseCandidates
        /\ \A i, j \in DOMAIN rres.reuse_probes :
              i < j => Earlier(rres.reuse_probes[i], rres.reuse_probes[j])
        /\ \A d \in ReuseCandidates :
              Qualifies(d) /\ (\A e \in ReuseCandidates : Earlier(e, d) => ~Qualifies(e))
                  => rres.kind = "existing" /\ rres.data_set_id = d
        /\ rres.kind # "existing" => ReuseProbed = ReuseCandidates

\* the first candidate's provider has no endpoint: the second, healthy one
\* is never probed and a new data set is to be created
C31_Witness ==
    /\ ReuseTried /\ ReuseCandidates = DataSetIds
    /\ Earlier(101, 102)
    /\ rq.reg[rq.datasets[101].provider_id] = "no_endpoint" /\ Qualifies(102)
    /\ rres.reuse_probes = <<101>> /\ rres.kind = "new"

NewCandidates ==
    IF rq.approved_read = "ok" THEN rq.approved \ rq.exclude_provider_ids ELSE {}

\* C32: the create sentinel is returned only for an approved, non-excluded,
\* active provider that answered the probe; each candidate is probed at
\* most once, and the phase fails with the no-provider error exactly when
\* no candidate qualifies.
C32_NewProviderSound ==
    Resolved =>
        /\ rres.kind = "new" =>
              /\ rres.data_set_id = -1
              /\ rres.provider_id \in NewCandidates
              /\ rq.reg[rres.provider_id] = "healthy"
        /\ \A i, j \in DOMAIN rres.new_probes :
              rres.new_probes[i] = rres.new_probes[j] => i = j
        /\ Len(rres.new_probes) <= Cardinality(NewCandidates)
        /\ rres.kind # "existing" =>
              (rres.kind = "error" <=> ~\E p \in NewCandidates : rq.reg[p] = "healthy")

C32_Witness ==
    /\ Resolved /\ rq.approved = {1, 2} /\ rq.exclude_provider_ids = {}
    /\ rq.reg[1] = "no_endpoint" /\ rq.reg[2] = "healthy"
    /\ rres.new_probes = <<1, 2>>
    /\ rres.kind = "new" /\ rres.provider_id = 2

(* ====================================================================== *)
(* PDPServer.wait_for_data_set_creation and its async twin: the polling   *)
(* loop, with time in ticks                                               *)
(* ====================================================================== *)

\* timeout_seconds and poll_interval (defaults 300 and 4), scaled down
Timeouts == {2, 4}
PollIntervals == {1, 2}

\* how long one status request takes
Latencies == {0, 1}

\* what GET /pdp/data-sets/created/{tx_hash} answers: 200 with
\* dataSetCreated true or false, 404, another status, a transport error
PollAnswers == {"created", "pending", "404", "500", "transport_error"}

WaitStates ==
    [kind : {"wait"}, impl : {"sync", "async"},
     timeout_seconds : Timeouts, poll_interval : PollIntervals,
     now : {0}, pc : {"while"}, in_flight : {0}, polls : {<<>>}, result : {NoResult}]

\* the wait began at time 0
deadline(w) == w.timeout_seconds

\* get_data_set_creation_status raises for every answer but a 200
status_raises(answer) == answer \in {"404", "500", "transport_error"}

\* while time.time() < deadline: the status request is sent, or the loop
\* ends and TimeoutError is raised
WaitLoopTest ==
    /\ cs.kind = "wait" /\ cs.pc = "while"
    /\ IF cs.now < deadline(cs)
       THEN cs' = [cs EXCEPT !.pc = "polling", !.in_flight = @ + 1]
       ELSE cs' = [cs EXCEPT !.pc = "done", !.result = CreateRaise("TimeoutError")]
    /\ UNCHANGED <<retrVars, mm, rq, rres, pf>>

\* the status request returns: an exception of it leaves the wait, a
\* confirmed creation is returned, anything else goes to sleep
WaitPollReturn ==
    /\ cs.kind = "wait" /\ cs.pc = "polling"
    /\ \E answer \in PollAnswers, latency \in Latencies :
          cs' = [cs EXCEPT
                   !.now = @ + latency,
                   !.in_flight = @ - 1,
                   !.polls = Append(@, answer),
                   !.pc = IF status_raises(answer) \/ answer = "created"
                          THEN "done" ELSE "sleep",
                   !.result = IF status_raises(answer) THEN CreateRaise("RuntimeError")
                              ELSE IF answer = "created"
                              THEN [kind |-> "return", error |-> "none"]
                              ELSE @]
    /\ UNCHANGED <<retrVars, mm, rq, rres, pf>>

\* time.sleep(poll_interval) / await asyncio.sleep(poll_interval)
WaitSleep ==
    /\ cs.kind = "wait" /\ cs.pc = "sleep"
    /\ cs' = [cs EXCEPT !.now = @ + cs.poll_interval, !.pc = "while"]
    /\ UNCHANGED <<retrVars, mm, rq, rres, pf>>

WaitNext == WaitLoopTest \/ WaitPollReturn \/ WaitSleep

InitWait ==
    /\ RetrOff /\ MetaOff /\ rq = NoCall /\ rres = NoCall /\ pf = NoCall
    /\ cs \in WaitStates

SpecWait == InitWait /\ [][WaitNext]_vars

(* --------------- properties of wait_for_data_set_creation ------------- *)

\* C33: the status is polled one request at a time, each poll after the
\* previous one returned and a sleep elapsed, and the wait ends only with
\* a confirmed creation or with the timeout: a poll answering 'not found'
\* or failing before the deadline is followed by another poll.
C33_PollUntilConfirmedOrTimeout ==
    /\ cs.in_flight <= 1
    /\ cs.pc = "done" =>
          \/ cs.result.kind = "return" /\ cs.polls[Len(cs.polls)] = "created"
          \/ cs.result = CreateRaise("TimeoutError") /\ cs.now >= deadline(cs)

\* the second poll answers 404 before the deadline and ends the wait
C33_Witness ==
    /\ cs.pc = "done" /\ cs.polls = <<"pending", "404">>
    /\ cs.now < deadline(cs)
    /\ cs.result = CreateRaise("RuntimeError")

(* ------------------- the layout of a v2 piece CID --------------------- *)

\* unsigned LEB128 of a value below 2^21, written out byte by byte
Leb128(v) ==
    IF v < 128 THEN <<v>>
    ELSE IF v < 16384 THEN <<128 + (v % 128), v \div 128>>
    ELSE <<128 + (v % 128), 128 + ((v \div 128) % 128), v \div 16384>>

\* varint(padding), one byte log2(paddedSize / 32), the root hash
ExpectedDigest ==
    Leb128(((pf.padded_piece_size * 127) \div 128) - pf.payload_size)
        \o <<CHOOSE e \in 0..30 : Leaves = 2 ^ e>> \o pf.root_hash

ExpectedCidBytes ==
    <<1>> \o Leb128(85) \o Leb128(4113) \o Leb128(Len(ExpectedDigest)) \o ExpectedDigest

ValidSizes ==
    /\ PowerOfTwo(Leaves)
    /\ (pf.padded_piece_size * 127) \div 128 >= pf.payload_size

\* C34: for a power-of-two leaf count and a payload that fits, the v2 CID
\* is 'b' followed by the lower-case unpadded base32 of 0x01, varint(0x55),
\* varint(0x1011), varint(len(digest)) and the digest of varint(padding),
\* the tree height byte and the 32-byte root hash.
C34_V2Layout ==
    (Encoded /\ ValidSizes) =>
        /\ pf.result.kind = "string"
        /\ Head(pf.result.str) = "b"
        /\ \A i \in 2..Len(pf.result.str) :
              \E v \in 1..32 : Base32Lower[v] = pf.result.str[i]
        /\ Len(pf.result.str) = 1 + ((8 * Len(ExpectedCidBytes) + 4) \div 5)
        /\ _decode_multibase_base32(pf.result.str) = PieceBytesResult(ExpectedCidBytes)

\* padding 253 takes a two-byte varint
C34_Witness ==
    /\ Encoded /\ pf.op = "convert"
    /\ pf.padded_piece_size = 256 /\ pf.payload_size = 1
    /\ pf.result.kind = "string" /\ Len(pf.result.str) = 65

(* ====================================================================== *)
(* StorageContext.upload step by step: _validate_size, upload_piece       *)
(* (session, PUT, finalize), wait_for_piece, add_pieces                   *)
(* ====================================================================== *)

MIN_UPLOAD_SIZE == 256
MAX_UPLOAD_SIZE == 266338304

\* the polls of wait_for_piece that fit before its deadline
MaxPolls == 2

UploadSizes ==
    {0, MIN_UPLOAD_SIZE - 1, MIN_UPLOAD_SIZE, MIN_UPLOAD_SIZE + 1,
     MAX_UPLOAD_SIZE - 1, MAX_UPLOAD_SIZE, MAX_UPLOAD_SIZE + 1}

\* _validate_size raises
size_refused_at_bounds(size_bytes) ==
    size_bytes <= MIN_UPLOAD_SIZE \/ size_bytes >= MAX_UPLOAD_SIZE
size_refused(size_bytes) == size_bytes < MIN_UPLOAD_SIZE \/ size_bytes > MAX_UPLOAD_SIZE

\* a request sent to a collaborator and how it was answered
Request(step, answer) == [step |-> step, answer |-> answer]

\* self._pdp is a PDPServer, whose add_pieces takes no idempotency_key,
\* or a collaborator that takes one (the tests' mock)
PdpKinds == {"PDPServer", "accepts_key"}

StepStates ==
    [kind : {"upload_steps"}, size : UploadSizes, pdp : PdpKinds,
     pc : {"start"}, log : {<<>>}, result : {NoResult}]

StepRaise(q, error) == [q EXCEPT !.pc = "done", !.result = CreateRaise(error)]
StepSent(q, step, answer) == [q EXCEPT !.log = Append(@, Request(step, answer))]

\* self._validate_size(len(data))
StepValidateSize ==
    /\ cs.kind = "upload_steps" /\ cs.pc = "start"
    /\ cs' = IF size_refused(cs.size) THEN StepRaise(cs, "ValueError")
             ELSE [cs EXCEPT !.pc = "calculate"]
    /\ UNCHANGED <<retrVars, mm, rq, rres, pf>>

\* calculate_piece_cid(data): the stream-commp helper runs, or is missing
StepCalculate ==
    /\ cs.kind = "upload_steps" /\ cs.pc = "calculate"
    /\ \E helper \in {"ok", "fails"} :
          cs' = IF helper = "fails" THEN StepRaise(StepSent(cs, "commp", "fails"), "PieceError")
                ELSE [StepSent(cs, "commp", "ok") EXCEPT !.pc = "session"]
    /\ UNCHANGED <<retrVars, mm, rq, rres, pf>>

\* POST /pdp/piece/uploads: 201 with a usable Location header, or not
StepCreateSession ==
    /\ cs.kind = "upload_steps" /\ cs.pc = "session"
    /\ \E answer \in {"201", "201_no_location", "201_bad_location", "500"} :
          cs' = IF answer # "201" THEN StepRaise(StepSent(cs, "session", answer), "RuntimeError")
                ELSE [StepSent(cs, "session", answer) EXCEPT !.pc = "put"]
    /\ UNCHANGED <<retrVars, mm, rq, rres, pf>>

\* PUT of the bytes
StepPut ==
    /\ cs.kind = "upload_steps" /\ cs.pc = "put"
    /\ \E answer \in {"204", "200", "500"} :
          cs' = IF answer # "204" THEN StepRaise(StepSent(cs, "put", answer), "RuntimeError")
                ELSE [StepSent(cs, "put", answer) EXCEPT !.pc = "finalize"]
    /\ UNCHANGED <<retrVars, mm, rq, rres, pf>>

\* POST of the piece CID to the upload session
StepFinalize ==
    /\ cs.kind = "upload_steps" /\ cs.pc = "finalize"
    /\ \E answer \in {"200", "400", "500"} :
          cs' = IF answer # "200" THEN StepRaise(StepSent(cs, "finalize", answer), "RuntimeError")
                ELSE [StepSent(cs, "finalize", answer) EXCEPT !.pc = "wait"]
    /\ UNCHANGED <<retrVars, mm, rq, rres, pf>>

FindPolls(q) == Cardinality({i \in DOMAIN q.log : q.log[i].step = "find"})

\* wait_for_piece: find_piece until it succeeds; 'not found' sleeps and
\* polls again, another failure is raised, the deadline ends the loop
StepWaitForPiece ==
    /\ cs.kind = "upload_steps" /\ cs.pc = "wait"
    /\ IF FindPolls(cs) >= MaxPolls THEN cs' = StepRaise(cs, "TimeoutError")
       ELSE \E answer \in {"200", "404", "500"} :
               cs' = IF answer = "500" THEN StepRaise(StepSent(cs, "find", answer), "RuntimeError")
                     ELSE IF answer = "404" THEN StepSent(cs, "find", answer)
                     ELSE [StepSent(cs, "find", answer) EXCEPT !.pc = "add"]
    /\ UNCHANGED <<retrVars, mm, rq, rres, pf>>

\* self._pdp.add_pieces(..., idempotency_key=...): a PDPServer refuses the
\* keyword before any request; otherwise the request is sent
StepAddPieces ==
    /\ cs.kind = "upload_steps" /\ cs.pc = "add"
    /\ IF cs.pdp = "PDPServer" THEN cs' = StepRaise(cs, "TypeError")
       ELSE \E answer \in {"added", "already_exists", "other_error"} :
               cs' = IF answer = "other_error"
                     THEN StepRaise(StepSent(cs, "add_pieces", answer), "OtherError")
                     ELSE [StepSent(cs, "add_pieces", answer) EXCEPT
                             !.pc = "done", !.result = [kind |-> "return", error |-> "none"]]
    /\ UNCHANGED <<retrVars, mm, rq, rres, pf>>

StepNext ==
    \/ StepValidateSize \/ StepCalculate \/ StepCreateSession \/ StepPut
    \/ StepFinalize \/ StepWaitForPiece \/ StepAddPieces

InitSteps ==
    /\ RetrOff /\ MetaOff /\ rq = NoCall /\ rres = NoCall /\ pf = NoCall
    /\ cs \in StepStates

SpecSteps == InitSteps /\ [][StepNext]_vars

(* ----------------- properties of the steps of upload ------------------ *)

\* the steps in their order, and the answer that lets the next one start
StepOrder == <<"commp", "session", "put", "finalize", "find", "add_pieces">>
StepSuccess == <<"ok", "201", "204", "200", "200", "added">>
Rank(step) == CHOOSE k \in DOMAIN StepOrder : StepOrder[k] = step
Succeeded(r) == r.answer = StepSuccess[Rank(r.step)]

\* C35: size validation (256 <= len <= 254 MiB, inclusive) comes before
\* any collaborator call; session (201), PUT (204), finalize (200), the
\* wait until the piece is found and add_pieces follow in that order, each
\* only after the previous one succeeded; add_pieces is never requested
\* for a piece not finalized and found; no step follows a failing one.
C35_StepsInOrder ==
    cs.kind = "upload_steps" =>
        /\ (cs.size < 256 \/ cs.size > 254 * 1024 * 1024) => cs.log = <<>>
        /\ (cs.size >= 256 /\ cs.size <= 254 * 1024 * 1024 /\ cs.pc = "done")
              => cs.log # <<>>
        /\ \A i \in DOMAIN cs.log :
              /\ i = 1 => cs.log[i].step = "commp"
              /\ i > 1 =>
                    \/ /\ Rank(cs.log[i].step) = Rank(cs.log[i - 1].step) + 1
                       /\ Succeeded(cs.log[i - 1])
                    \/ /\ cs.log[i].step = "find"
                       /\ cs.log[i - 1] = Request("find", "404")
        /\ \A i \in DOMAIN cs.log :
              cs.log[i].step = "add_pieces" =>
                  /\ \E j \in 1..(i - 1) : cs.log[j] = Request("finalize", "200")
                  /\ cs.log[i - 1] = Request("find", "200")

\* the piece is found at the second poll and add_pieces is requested last
C35_Witness ==
    /\ cs.kind = "upload_steps" /\ cs.pc = "done" /\ cs.size = MAX_UPLOAD_SIZE
    /\ Len(cs.log) = 7
    /\ cs.log[5] = Request("find", "404") /\ cs.log[6] = Request("find", "200")
    /\ cs.log[7] = Request("add_pieces", "added")

(* ====================================================================== *)
(* AsyncStorageManager.get_context and get_default_context: the cached    *)
(* default context under two callers of one event loop                    *)
(* ====================================================================== *)

Callers == {1, 2}

\* the arguments of get_context; explicit names the id option given, if any
ContextOptions ==
    [explicit : {"none", "provider_id", "provider_address", "data_set_id"},
     force_create_data_set : BOOLEAN, with_cdn : BOOLEAN,
     metadata : {EmptyMeta, CdnMeta}, exclude_provider_ids : {{}, {1}}]

\* get_context() as get_default_context calls it
NoOptions ==
    [explicit |-> "none", force_create_data_set |-> FALSE, with_cdn |-> FALSE,
     metadata |-> EmptyMeta, exclude_provider_ids |-> {}]

CallerStates ==
    [op : {"get_context"}, options : ContextOptions, pc : {"start"},
     returned : {0}, cached : {FALSE}]
        \cup [op : {"get_default_context"}, options : {NoOptions}, pc : {"start"},
              returned : {0}, cached : {FALSE}]

\* utils.metadata.combine_metadata(metadata, with_cdn)
combine_metadata(metadata, with_cdn) ==
    IF "withCDN" \in DOMAIN metadata THEN metadata
    ELSE IF with_cdn THEN [k \in DOMAIN metadata \cup {"withCDN"} |->
                              IF k = "withCDN" THEN "" ELSE metadata[k]]
    ELSE metadata

\* _default_context is 0 for None, else the number of a context in contexts
can_use_default(m, o) ==
    /\ o.explicit = "none"
    /\ ~o.force_create_data_set
    /\ m.default # 0
    /\ metadata_matches(m.contexts[m.default].metadata,
                        combine_metadata(o.metadata, o.with_cdn))

\* the call up to its first await: the cached context is returned, or
\* AsyncStorageContext.create is awaited
CacheCall(c) ==
    /\ cs.kind = "cache" /\ cs.callers[c].pc = "start"
    /\ IF cs.callers[c].op = "get_default_context" /\ cs.default # 0
       THEN cs' = [cs EXCEPT !.callers[c].pc = "done",
                             !.callers[c].returned = cs.default,
                             !.callers[c].cached = TRUE]
       ELSE IF cs.callers[c].op = "get_context" /\ can_use_default(cs, cs.callers[c].options)
       THEN cs' = [cs EXCEPT !.callers[c].pc = "done",
                             !.callers[c].returned = cs.default,
                             !.callers[c].cached = TRUE]
       ELSE cs' = [cs EXCEPT !.callers[c].pc = "creating", !.resolutions = @ + 1]
    /\ UNCHANGED <<retrVars, mm, rq, rres, pf>>

\* create returns a context (its provider outside the exclusions unless an
\* id option chose it) or raises; without id options the context becomes
\* the default; get_default_context assigns it once more and returns it
CacheCreated(c) ==
    /\ cs.kind = "cache" /\ cs.callers[c].pc = "creating"
    /\ \/ cs' = [cs EXCEPT !.callers[c].pc = "raised"]
       \/ \E p \in SelProviders :
             /\ cs.callers[c].options.explicit = "none"
                    => p \notin cs.callers[c].options.exclude_provider_ids
             /\ cs' = [cs EXCEPT
                         !.contexts = Append(@,
                             [provider_id |-> p,
                              metadata |-> combine_metadata(cs.callers[c].options.metadata,
                                                            cs.callers[c].options.with_cdn)]),
                         !.default = IF cs.callers[c].options.explicit = "none"
                                     THEN Len(cs.contexts) + 1 ELSE @,
                         !.callers[c].pc = "done",
                         !.callers[c].returned = Len(cs.contexts) + 1]
    /\ UNCHANGED <<retrVars, mm, rq, rres, pf>>

CacheNext == \E c \in Callers : CacheCall(c) \/ CacheCreated(c)

InitCache ==
    /\ RetrOff /\ MetaOff /\ rq = NoCall /\ rres = NoCall /\ pf = NoCall
    /\ \E callers \in [Callers -> CallerStates] :
          cs = [kind |-> "cache", default |-> 0, contexts |-> <<>>,
                callers |-> callers, resolutions |-> 0]

SpecCache == InitCache /\ [][CacheNext]_vars

(* ---------------- properties of the cached default context ------------ *)

\* caller c was handed the cached default context by get_context
FromCache(c) ==
    /\ cs.callers[c].op = "get_context"
    /\ cs.callers[c].pc = "done" /\ cs.callers[c].cached

\* C36: get_context returns the cached default context only when no
\* provider id, provider address, data set id or forced creation is
\* requested, the requested metadata combined with the CDN flag equals the
\* cached context's metadata, and the cached context's provider is not
\* excluded; the cache only ever holds a whole context.
C36_CachedOnlyWhenSatisfying ==
    cs.kind = "cache" =>
        /\ cs.default \in 0..Len(cs.contexts)
        /\ \A c \in Callers :
              FromCache(c) =>
                  /\ cs.callers[c].options.explicit = "none"
                  /\ ~cs.callers[c].options.force_create_data_set
                  /\ cs.contexts[cs.callers[c].returned].metadata
                        = combine_metadata(cs.callers[c].options.metadata,
                                           cs.callers[c].options.with_cdn)
                  /\ cs.contexts[cs.callers[c].returned].provider_id
                        \notin cs.callers[c].options.exclude_provider_ids

\* the cached context sits on provider 1, which the caller excludes
C36_Witness ==
    /\ cs.kind = "cache" /\ FromCache(2)
    /\ cs.callers[2].options.exclude_provider_ids = {1}
    /\ cs.contexts[cs.callers[2].returned].provider_id = 1

\* get_default_context, or get_context without options
Plain(c) == cs.callers[c].options = NoOptions

\* C38: concurrent callers of get_default_context (or get_context without
\* options) on a manager without a cached default context trigger at most
\* one context resolution and creation and all receive the same context.
C38_OneResolution ==
    (cs.kind = "cache" /\ \A c \in Callers : Plain(c)) =>
        /\ Len(cs.contexts) <= 1
        /\ \A c, d \in Callers :
              cs.callers[c].pc = "done" /\ cs.callers[d].pc = "done"
                  => cs.callers[c].returned = cs.callers[d].returned

\* both callers found no default context and each created its own
C38_Witness ==
    /\ cs.kind = "cache"
    /\ \A c \in Callers :
          cs.callers[c].op = "get_default_context" /\ cs.callers[c].pc = "done"
    /\ cs.callers[1].returned # cs.callers[2].returned
    /\ cs.resolutions = 2

(* ====================================================================== *)
(* StorageContext.create_contexts and AsyncStorageContext.create_contexts *)
(* ====================================================================== *)

\* the count argument
ContextCounts == {0, 1, 2, 3}

\* the rule the caller's options select for the first context, and the
\* provider an explicit data set id, provider id or provider address names
FirstRules == {"smart", "data_set_id", "provider_id", "provider_address"}
ContextsOptions ==
    {o \in [rule : FirstRules, named : SelProviders,
            force_create_data_set : BOOLEAN,
            exclude_provider_ids : {{}, {1}}] :
        o.rule = "smart" => o.named = 1}

\* the caller's data sets and the provider states of this section
ContextsDataSets ==
    [provider_id : SelProviders, state : {"ok", "ended"},
     metadata : {CdnMeta}, active_piece_count : {0}]
ContextsProbes == {"healthy", "ping_fails", "lookup_raises"}

\* exclude_provider_ids of the options handed to create
exclusions_without_used(options, used) == options.exclude_provider_ids
exclusions(options, used) ==
    options.exclude_provider_ids \cup {used[k] : k \in DOMAIN used}

\* the rule _resolve_provider_and_data_set applies: the id options are
\* passed on for the first context only, and an explicit data set id is
\* skipped under forced creation
ctx_rule(options, contexts) ==
    IF contexts # <<>> THEN "smart"
    ELSE IF options.rule = "data_set_id" /\ options.force_create_data_set THEN "smart"
    ELSE options.rule

\* the request _smart_select_provider sees
selection_request(c, exclude, reg) ==
    [force_create |-> c.options.force_create_data_set, listing |-> "ok",
     datasets |-> c.datasets, reg |-> reg,
     approved |-> c.approved, approved_read |-> "ok",
     requested_metadata |-> CdnMeta, exclude_provider_ids |-> exclude]

\* _resolve_provider_and_data_set: an explicit rule answers for the named
\* provider (explicit is "existing", "new" or "error"), anything else is
\* left to the smart selection
resolve_provider_and_data_set(rule, named, explicit, q, shuffled) ==
    IF rule = "smart" THEN smart_select_provider(q, shuffled)
    ELSE IF explicit = "error" THEN SmartResult("error", 0, 0, <<>>, <<>>)
    ELSE SmartResult(explicit, named,
                     IF explicit = "existing" THEN 101 ELSE -1, <<>>, <<>>)

\* create after resolution: it raises when resolution raised or when the
\* data set it had to create was not created, else it returns a context on
\* the resolved provider
create_result(res, created, n) ==
    IF res.kind = "error" \/ (res.data_set_id = -1 /\ ~created)
    THEN [kind |-> "raise"]
    ELSE [kind |-> "context", provider |-> res.provider_id,
          data_set_id |-> IF res.data_set_id = -1 THEN 200 + n ELSE res.data_set_id]

\* what the collaborators answer during one call of create: the provider
\* states matter to the smart selection only, the explicit rule's answer to
\* an explicit rule only
ProbesRead(rule) ==
    IF rule = "smart" THEN [SelProviders -> ContextsProbes]
    ELSE {[p \in SelProviders |-> "healthy"]}
ExplicitAnswers(rule) ==
    IF rule = "smart" THEN {"error"} ELSE {"existing", "new", "error"}

ContextsStates ==
    [kind : {"contexts"}, impl : {"sync", "async"}, count : ContextCounts,
     options : ContextsOptions, datasets : [DataSetIds -> ContextsDataSets],
     approved : SUBSET SelProviders, pc : {"loop"}, i : {0},
     contexts : {<<>>}, used_provider_ids : {<<>>}, calls : {<<>>}]

\* one pass of the loop body: the options are built, create is called, and
\* its context is kept or its exception ends the loop
CreateContextsPass ==
    /\ cs.pc = "loop" /\ cs.i < cs.count
    /\ \E reg \in ProbesRead(ctx_rule(cs.options, cs.contexts)),
          explicit \in ExplicitAnswers(ctx_rule(cs.options, cs.contexts)),
          created \in BOOLEAN :
          LET exclude == exclusions(cs.options, cs.used_provider_ids)
              rule == ctx_rule(cs.options, cs.contexts)
              q == selection_request(cs, exclude, reg)
          IN  \E shuffled \in Orderings(candidate_ids(q)) :
                LET res == resolve_provider_and_data_set(rule, cs.options.named,
                                                         explicit, q, shuffled)
                    ctx == create_result(res, created, cs.i)
                    call == [rule |-> rule, exclude_provider_ids |-> exclude]
                IN  IF ctx.kind = "context"
                    THEN cs' = [cs EXCEPT
                                  !.i = @ + 1,
                                  !.calls = Append(@, call),
                                  !.contexts = Append(@, ctx),
                                  !.used_provider_ids = Append(@, ctx.provider)]
                    ELSE cs' = [cs EXCEPT
                                  !.calls = Append(@, call),
                                  !.pc = IF cs.contexts = <<>> THEN "raised"
                                         ELSE "returned"]
    /\ UNCHANGED <<retrVars, mm, rq, rres, pf>>

\* the loop has run count times: the contexts are returned
CreateContextsReturn ==
    /\ cs.pc = "loop" /\ cs.i >= cs.count
    /\ cs' = [cs EXCEPT !.pc = "returned"]
    /\ UNCHANGED <<retrVars, mm, rq, rres, pf>>

ContextsNext == CreateContextsPass \/ CreateContextsReturn

InitContexts ==
    /\ RetrOff /\ MetaOff /\ rq = NoCall /\ rres = NoCall /\ pf = NoCall
    /\ cs \in ContextsStates

SpecContexts == InitContexts /\ [][ContextsNext]_vars

(* ---------------------- properties of create_contexts ----------------- *)

\* C40: create_contexts holds at most count contexts, their providers are
\* pairwise distinct, and every call of create after the first is a smart
\* selection that excludes the provider of every context created before
\* it, whichever rule resolved the first context.
C40_DistinctProviders ==
    /\ Len(cs.contexts) <= cs.count
    /\ \A j, k \in DOMAIN cs.contexts :
          cs.contexts[j].provider = cs.contexts[k].provider => j = k
    /\ \A k \in DOMAIN cs.calls :
          /\ k > 1 => cs.calls[k].rule = "smart"
          /\ \A j \in DOMAIN cs.contexts :
                j < k => cs.contexts[j].provider \in cs.calls[k].exclude_provider_ids

\* three contexts were asked for, the first by an explicit provider id; two
\* were returned, on different providers, and the third call found every
\* provider excluded
C40_Witness ==
    /\ cs.pc = "returned" /\ cs.count = 3
    /\ cs.options.rule = "provider_id"
    /\ Len(cs.contexts) = 2 /\ Len(cs.calls) = 3
    /\ cs.contexts[1].provider = cs.options.named
    /\ cs.contexts[2].provider # cs.contexts[1].provider
    /\ cs.calls[3].exclude_provider_ids = SelProviders
====
